---------------------------- MODULE Spec2Model ----------------------------
(***************************************************************************)
(* Model of MTECmqtt: register catalog (config.py), cluster planner and    *)
(* its cache (modbus_client.py), derived metric calculator and poll        *)
(* scheduler (mtec_coordinator.py, mtec_mqtt.py).                          *)
(*                                                                         *)
(* Register ids are Python strings.  A string is modelled as the sequence  *)
(* of its character codes, so that sorted() (lexicographic by code point), *)
(* str.isnumeric(), int() and str() are computed as Python computes them.  *)
(***************************************************************************)
EXTENDS Integers, Sequences, FiniteSets, TLC

VARIABLES
    register_map,   \* REGISTER_MAP: the catalog, in insertion order
    pc,             \* position of the running operation
    registers,      \* planner argument: the requested id list
    todo,           \* planner: what is left of sorted(registers)
    cluster,        \* planner: the running cluster
    cluster_list,   \* planner: clusters emitted so far / the returned plan
    cluster_cache,  \* MTECModbusClient._cluster_cache: key -> plan
    requested,      \* history: the request lists passed to _get_register_clusters
    created,        \* history: number of _create_register_clusters runs
    ncalls,         \* history: number of _get_register_clusters calls
    r_map,          \* init_register_map: the raw catalog read from registers.yaml
    r_idx,          \* init_register_map: index of the next raw entry
    error,          \* init_register_map: the local flag error
    reg_groups,     \* init_register_map: the group list built so far
    group,          \* read_mtec_data: the polled group
    bus,            \* the device as the bus shows it during the running poll
    clock,          \* wall clock, in seconds
    data,           \* read_mtec_data: the decoded map of the last poll
    pvdata,         \* the snapshot returned by the last read_mtec_data
    published,      \* the messages published by the last poll step, in order
    run_status,     \* the global flag run_status
    now,            \* run: the local now of the running iteration
    now_ext_idx,    \* run: rotation index of the secondary groups
    next_read_config, \* run: next due time of group config
    next_read_day,  \* run: next due time of group day
    next_read_total, \* run: next due time of group total
    refresh,        \* the configured intervals REFRESH_NOW/DAY/TOTAL/CONFIG
    topic_base,     \* run: the topic prefix, set after the initial config read
    connected,      \* the bus client holds an open connection
    mqtt_running,   \* the publisher is started
    iter_polls,     \* history: the groups polled in the running iteration, in order
    iter_failed,    \* history: the long-cadence groups whose poll in the running
                    \* iteration returned nothing
    prev_failed,    \* history: day/total/config polls that failed in the
                    \* iteration before the running one
    sec_hist,       \* history: the last secondary groups polled (at most 5)
    polled,         \* history: the groups polled so far
    config_ok,      \* history: a config read has returned a snapshot
    published_any,  \* history: register data has been published
    iters,          \* history: iterations of the main loop completed
    retries,        \* history: failed initial config reads
    signal_at,      \* history: the position of run when the stop signal arrived
    w_register,     \* write_register: the argument register
    w_value,        \* write_register: the argument value
    w_outcome,      \* what the transport does with a write: "ok", "error", "exception"
    w_writes,       \* the writes handed to the transport, in order
    w_result,       \* what write_register did: "true", "false", "raise"; "" before
    it_phase,       \* the running poll of an iteration: "begin", "read", "wait",
                    \* "publish", "end"
    it_k,           \* the running poll: index of the cluster read or of the message
    it_events       \* history: the bus and publish events, or the poll cycles, in order

planVars  == <<registers, todo, cluster, cluster_list>>
cacheVars == <<cluster_cache, requested, created, ncalls>>

loadVars  == <<r_map, r_idx, error, reg_groups>>

readVars  == <<group, bus, clock, data, pvdata, published>>

runVars   == <<run_status, now, now_ext_idx, next_read_config, next_read_day,
               next_read_total, refresh, topic_base, connected, mqtt_running>>
histVars  == <<iter_polls, iter_failed, prev_failed, sec_hist, polled, config_ok, published_any,
               iters, retries, signal_at>>

writeVars == <<w_register, w_value, w_outcome, w_writes, w_result>>

iterVars == <<it_phase, it_k, it_events>>

vars == <<register_map, pc, planVars, cacheVars, loadVars, readVars, runVars, histVars,
          writeVars, iterVars>>

-----------------------------------------------------------------------------
(* Python strings as sequences of character codes *)

Digit0 == 48
Digit9 == 57

\* str.isnumeric() on ASCII input: non-empty and every character a digit
IsNumeric(s) == Len(s) > 0 /\ \A i \in 1..Len(s) : s[i] \in Digit0..Digit9

\* int(s) for a string of decimal digits
RECURSIVE ToInt(_)
ToInt(s) ==
    IF s = <<>> THEN 0
    ELSE 10 * ToInt(SubSeq(s, 1, Len(s) - 1)) + (s[Len(s)] - Digit0)

\* str(n) for n >= 0
RECURSIVE Str(_)
Str(n) == IF n < 10 THEN <<Digit0 + n>> ELSE Str(n \div 10) \o <<Digit0 + (n % 10)>>

\* a < b for Python strings: first differing code point decides, a proper
\* prefix is smaller
RECURSIVE StrLess(_, _)
StrLess(a, b) ==
    IF b = <<>> THEN FALSE
    ELSE IF a = <<>> THEN TRUE
    ELSE IF a[1] # b[1] THEN a[1] < b[1]
    ELSE StrLess(Tail(a), Tail(b))

\* insert x into the sorted list s, after the elements not greater than x
RECURSIVE InsertSorted(_, _)
InsertSorted(x, s) ==
    IF s = <<>> THEN <<x>>
    ELSE IF StrLess(x, s[1]) THEN <<x>> \o s
    ELSE <<s[1]>> \o InsertSorted(x, Tail(s))

\* a list of ids as given: the mutant of sorted() that forgets to sort
Unsorted(l) == l

\* sorted(registers): ascending by string comparison
RECURSIVE Sorted(_)
Sorted(l) ==
    IF l = <<>> THEN <<>>
    ELSE InsertSorted(l[Len(l)], Sorted(SubSeq(l, 1, Len(l) - 1)))

-----------------------------------------------------------------------------
(* Register catalog entries *)

\* None for the text fields type, mqtt and group: the code only tests these
\* for truth, where None and "" behave alike
NoneStr == ""

\* None for the length field (pseudo-registers carry no length)
NoneLen == -1

\* One catalog row.  id is the key the row is stored under in REGISTER_MAP.
Entry(id, name, length, type, unit, scale, writable, mqtt, grp) ==
    [id |-> id, name |-> name, length |-> length, type |-> type, unit |-> unit,
     scale |-> scale, writable |-> writable, mqtt |-> mqtt, group |-> grp]

\* REGISTER_MAP.get(register) is not None
Known(map, register) == \E i \in 1..Len(map) : map[i].id = register

\* REGISTER_MAP.get(register) / REGISTER_MAP[register]
Lookup(map, register) ==
    map[CHOOSE i \in 1..Len(map) : map[i].id = register]

-----------------------------------------------------------------------------
(* Cluster planner: MTECModbusClient._create_register_clusters *)

\* cluster = {"start": 0, "length": 0, "items": []}
EmptyCluster == [start |-> 0, length |-> 0, items |-> <<>>]

\* the gap test with the comparison weakened to >=
IsGapOrTouch(register, c) == ToInt(register) >= c.start + c.length

\* int(register) > cluster["start"] + cluster["length"]
IsGap(register, c) == ToInt(register) > c.start + c.length

\* the loop iteration with an unknown numeric id closing the running cluster
ClusterStepUnknownBreaks(map, st, register) ==
    IF IsNumeric(register) /\ Known(map, register)
    THEN LET item == Lookup(map, register)
             gap  == IsGap(register, st.cluster)
             cl   == IF gap /\ st.cluster.start > 0
                     THEN Append(st.cluster_list, st.cluster)
                     ELSE st.cluster_list
             c0   == IF gap
                     THEN [start |-> ToInt(register), length |-> 0, items |-> <<>>]
                     ELSE st.cluster
         IN  [cluster |-> [start  |-> c0.start,
                           length |-> c0.length + item.length,
                           items  |-> Append(c0.items, item)],
              cluster_list |-> cl]
    ELSE IF IsNumeric(register)
    THEN [cluster |-> EmptyCluster,
          cluster_list |-> IF st.cluster.start > 0
                           THEN Append(st.cluster_list, st.cluster)
                           ELSE st.cluster_list]
    ELSE st

\* One iteration of the loop over sorted(registers).
\* st = [cluster, cluster_list]
ClusterStep(map, st, register) ==
    IF IsNumeric(register) /\ Known(map, register)
    THEN LET item == Lookup(map, register)
             gap  == IsGap(register, st.cluster)
             cl   == IF gap /\ st.cluster.start > 0
                     THEN Append(st.cluster_list, st.cluster)
                     ELSE st.cluster_list
             c0   == IF gap
                     THEN [start |-> ToInt(register), length |-> 0, items |-> <<>>]
                     ELSE st.cluster
         IN  [cluster |-> [start  |-> c0.start,
                           length |-> c0.length + item.length,
                           items  |-> Append(c0.items, item)],
              cluster_list |-> cl]
    ELSE st

\* the tail of the function: append the last cluster
ClusterFinish(st) ==
    IF st.cluster.start > 0 THEN Append(st.cluster_list, st.cluster)
    ELSE st.cluster_list

RECURSIVE ClusterWalk(_, _, _)
ClusterWalk(map, st, l) ==
    IF l = <<>> THEN st ELSE ClusterWalk(map, ClusterStep(map, st, l[1]), Tail(l))

\* _create_register_clusters(registers)
CreateRegisterClusters(map, regs) ==
    ClusterFinish(ClusterWalk(map,
                              [cluster |-> EmptyCluster, cluster_list |-> <<>>],
                              Sorted(regs)))

-----------------------------------------------------------------------------
(* Bounds and input universes *)

MaxReq == 3         \* longest request list handed to the planner
MaxLen == 2         \* largest word count of a catalog register

\* the pseudo-register id "consumption"
Consumption == <<99, 111, 110, 115, 117, 109, 112, 116, 105, 111, 110>>

\* wire type of a planner catalog register of n words
TypeForLen(n) == IF n = 1 THEN "U16" ELSE IF n = 2 THEN "U32" ELSE "STR"

\* Catalogs for the planner: registers "9", "10" and "12" of every word count
\* up to MaxLen (contiguous, overlapping and separated spans all occur),
\* register "13" of one word, the pseudo-register "consumption"; "11" is in
\* no catalog.
PlanCatalogs ==
    { << Entry(Str(9), "R9", l9, TypeForLen(l9), "", 1, FALSE, "r9", "base"),
         Entry(Str(10), "R10", l10, TypeForLen(l10), "", 1, FALSE, "r10", "base"),
         Entry(Str(12), "R12", l12, TypeForLen(l12), "", 1, FALSE, "r12", "base"),
         Entry(Str(13), "R13", 1, "U16", "", 1, FALSE, "r13", "base"),
         Entry(Consumption, "Consumption", NoneLen, NoneStr, "W", 1, FALSE,
               "consumption", "base") >> :
      l9 \in 1..MaxLen, l10 \in 1..MaxLen, l12 \in 1..MaxLen }

PlanIds == {Str(9), Str(10), Str(11), Str(12), Str(13), Consumption}

\* all lists over S of length at most n
ListsUpTo(S, n) == UNION { [1..k -> S] : k \in 0..n }

\* the empty dict
EmptyMap == [k \in {} |-> <<>>]

\* the state of the parts a specification leaves alone
CacheIdle ==
    /\ cluster_cache = EmptyMap
    /\ requested = {}
    /\ created = 0
    /\ ncalls = 0

LoadIdle ==
    /\ r_map = <<>>
    /\ r_idx = 0
    /\ error = FALSE
    /\ reg_groups = <<>>

ReadIdle ==
    /\ group = ""
    /\ bus = [mem |-> EmptyMap, fail |-> {}, short |-> {}]
    /\ clock = 0
    /\ data = EmptyMap
    /\ pvdata = <<>>
    /\ published = <<>>

NoTopic == <<>>

IterIdle ==
    /\ it_phase = ""
    /\ it_k = 0
    /\ it_events = <<>>

WriteIdle ==
    /\ w_register = <<>>
    /\ w_value = [ty |-> "none", n |-> 0, d |-> 1, s |-> <<>>]
    /\ w_outcome = "ok"
    /\ w_writes = <<>>
    /\ w_result = ""

RunIdle ==
    /\ run_status = FALSE
    /\ now = 0
    /\ now_ext_idx = 0
    /\ next_read_config = 0
    /\ next_read_day = 0
    /\ next_read_total = 0
    /\ refresh = [now |-> 0, day |-> 0, total |-> 0, config |-> 0]
    /\ topic_base = NoTopic
    /\ connected = FALSE
    /\ mqtt_running = FALSE
    /\ iter_polls = <<>>
    /\ iter_failed = {}
    /\ prev_failed = {}
    /\ sec_hist = <<>>
    /\ polled = {}
    /\ config_ok = FALSE
    /\ published_any = FALSE
    /\ iters = 0
    /\ retries = 0
    /\ signal_at = ""

-----------------------------------------------------------------------------
(* Specification SpecPlan: one run of _create_register_clusters, one loop   *)
(* iteration per step                                                       *)

InitPlan ==
    /\ register_map \in PlanCatalogs
    /\ registers \in ListsUpTo(PlanIds, MaxReq)
    /\ pc = "plan_start"
    /\ todo = <<>>
    /\ cluster = EmptyCluster
    /\ cluster_list = <<>>
    /\ CacheIdle
    /\ LoadIdle
    /\ ReadIdle
    /\ RunIdle
    /\ WriteIdle
    /\ IterIdle

\* lines 165-168: the initial cluster, the empty result, sorted(registers)
PlanStart ==
    /\ pc = "plan_start"
    /\ todo' = Sorted(registers)
    /\ cluster' = EmptyCluster
    /\ cluster_list' = <<>>
    /\ pc' = "plan_loop"
    /\ UNCHANGED <<register_map, registers, cacheVars, loadVars, readVars, runVars, histVars, writeVars, iterVars>>

\* lines 168-180: one iteration of the for loop
PlanLoop ==
    /\ pc = "plan_loop"
    /\ todo # <<>>
    /\ LET st == ClusterStep(register_map,
                             [cluster |-> cluster, cluster_list |-> cluster_list],
                             Head(todo))
       IN  /\ cluster' = st.cluster
           /\ cluster_list' = st.cluster_list
    /\ todo' = Tail(todo)
    /\ UNCHANGED <<register_map, registers, pc, cacheVars, loadVars, readVars, runVars, histVars, writeVars, iterVars>>

\* lines 182-185: append the last cluster and return
PlanReturn ==
    /\ pc = "plan_loop"
    /\ todo = <<>>
    /\ cluster_list' = ClusterFinish([cluster |-> cluster, cluster_list |-> cluster_list])
    /\ pc' = "plan_done"
    /\ UNCHANGED <<register_map, registers, todo, cluster, cacheVars, loadVars, readVars, runVars, histVars, writeVars, iterVars>>

NextPlan == PlanStart \/ PlanLoop \/ PlanReturn

SpecPlan == InitPlan /\ [][NextPlan]_vars

-----------------------------------------------------------------------------
(* Claims about the planner *)

Addr(item) == ToInt(item.id)

\* C1: the emitted clusters have strictly increasing start addresses and the
\* items inside each cluster are in ascending address order, for any request
\* list, ids of different digit counts included.
C1_AscendingAddressOrder ==
    pc = "plan_done" =>
        /\ \A i, j \in 1..Len(cluster_list) :
               i < j => cluster_list[i].start < cluster_list[j].start
        /\ \A k \in 1..Len(cluster_list) :
               \A i, j \in 1..Len(cluster_list[k].items) :
                   i < j => Addr(cluster_list[k].items[i]) <= Addr(cluster_list[k].items[j])

\* C2: in a loop iteration over a known numeric register, a new cluster is
\* started exactly when the register's address is strictly greater than
\* currentStart + currentLength; otherwise (contiguous or overlapping) the
\* register extends the current cluster.
C2_BreakExactlyOnGap ==
    [][ (pc = "plan_loop" /\ todo # <<>> /\ IsNumeric(Head(todo))
            /\ Known(register_map, Head(todo))) =>
        LET r    == Head(todo)
            item == Lookup(register_map, r)
        IN  IF ToInt(r) > cluster.start + cluster.length
            THEN /\ cluster' = [start |-> ToInt(r), length |-> item.length,
                                items |-> <<item>>]
                 /\ cluster_list' = IF cluster.start > 0
                                    THEN Append(cluster_list, cluster)
                                    ELSE cluster_list
            ELSE /\ cluster' = [start |-> cluster.start,
                                length |-> cluster.length + item.length,
                                items |-> Append(cluster.items, item)]
                 /\ cluster_list' = cluster_list ]_vars

\* C2 witness: the walk has closed a cluster on a gap and has extended the
\* running cluster by a register that touches it (address = start + length
\* before the step).
C2_Witness ==
    /\ pc = "plan_loop"
    /\ Len(cluster_list) >= 1
    /\ Len(cluster.items) = 2
    /\ Addr(cluster.items[2]) = cluster.start + cluster.items[1].length

-----------------------------------------------------------------------------
(* Specification SpecCache: calls of _get_register_clusters on one client   *)

MaxCalls == 2       \* planner calls in one run
MaxCacheReq == 2    \* longest request list in a run of calls

CacheIds == {Str(9), Str(10), Consumption}

\* the cache key taken as the canonical (sorted) id list
CacheKeySorted(regs) == Sorted(regs)

\* idx = str(registers): the printed list.  Two lists print alike exactly when
\* they are the same list (same ids in the same order), so the list stands
\* for its print.
CacheKey(regs) == regs

InitCache ==
    /\ register_map \in { c \in PlanCatalogs :
                            c[1].length = c[2].length /\ c[2].length = c[3].length }
    /\ pc = "idle"
    /\ registers = <<>>
    /\ todo = <<>>
    /\ cluster = EmptyCluster
    /\ cluster_list = <<>>
    /\ CacheIdle
    /\ LoadIdle
    /\ ReadIdle
    /\ RunIdle
    /\ WriteIdle
    /\ IterIdle

\* _get_register_clusters keeping the plan of the last request only,
\* computed at every call
GetRegisterClustersReplacing(regs) ==
    /\ pc = "idle"
    /\ ncalls < MaxCalls
    /\ cluster_cache' = (CacheKey(regs) :> CreateRegisterClusters(register_map, regs))
    /\ created' = created + 1
    /\ cluster_list' = CreateRegisterClusters(register_map, regs)
    /\ registers' = regs
    /\ requested' = requested \cup {regs}
    /\ ncalls' = ncalls + 1
    /\ UNCHANGED <<register_map, pc, todo, cluster, loadVars, readVars, runVars,
                   histVars, writeVars, iterVars>>

\* _get_register_clusters(registers), lines 155-161
GetRegisterClusters(regs) ==
    /\ pc = "idle"
    /\ ncalls < MaxCalls
    /\ LET idx == CacheKey(regs)
           hit == idx \in DOMAIN cluster_cache
           new == IF hit THEN cluster_cache
                  ELSE cluster_cache @@
                       (idx :> CreateRegisterClusters(register_map, regs))
       IN  /\ cluster_cache' = new
           /\ created' = IF hit THEN created ELSE created + 1
           /\ cluster_list' = new[idx]
    /\ registers' = regs
    /\ requested' = requested \cup {regs}
    /\ ncalls' = ncalls + 1
    /\ UNCHANGED <<register_map, pc, todo, cluster, loadVars, readVars, runVars, histVars, writeVars, iterVars>>

NextCache == \E regs \in ListsUpTo(CacheIds, MaxCacheReq) : GetRegisterClusters(regs)

SpecCache == InitCache /\ [][NextCache]_vars

-----------------------------------------------------------------------------
(* Claims about the cache *)

Count(l, x) == Cardinality({i \in 1..Len(l) : l[i] = x})

\* b is a permutation of a
IsPerm(a, b) ==
    /\ Len(a) = Len(b)
    /\ \A i \in 1..Len(a) : Count(a, a[i]) = Count(b, a[i])

\* the set of ids of a list
IdSet(l) == {l[i] : i \in 1..Len(l)}

\* C3: clustering is order-independent: any two request lists that are
\* permutations of each other get the same plan (same starts, lengths and
\* item order), whichever was planned first, and the plan returned by the
\* last call is the plan of every permutation of its list.
C3_OrderIndependent ==
    /\ \A k1, k2 \in DOMAIN cluster_cache :
           IsPerm(k1, k2) => cluster_cache[k1] = cluster_cache[k2]
    /\ ncalls > 0 =>
           \A k \in DOMAIN cluster_cache :
               IsPerm(k, registers) => cluster_list = cluster_cache[k]

\* C3 witness: two different orders of the same ids have both been planned,
\* the plan is not empty.
C3_Witness ==
    \E k1, k2 \in DOMAIN cluster_cache :
        /\ k1 # k2
        /\ IsPerm(k1, k2)
        /\ IdSet(k1) = {Str(9), Str(10)}
        /\ cluster_cache[k1] # <<>>
        /\ registers = k2

-----------------------------------------------------------------------------
(* Specification SpecLoad: init_register_map (config.py), one raw entry per *)
(* step                                                                     *)

MaxRaw == 3         \* entries of the raw catalog

\* p_optional: the optional parameters
OptParams == {"length", "type", "unit", "scale", "writable", "mqtt", "group"}

\* A raw entry: the key, the parameters the YAML row gives, their values.
\* has is the set of parameters present in the row.
Raw(id, has, name, grp) ==
    [id |-> id, has |-> has,
     v |-> Entry(id, name, 1, "U16", "W", 10, TRUE, "key", grp)]

RawIds == {Str(9), Str(10), Consumption}

\* Rows with a name, with an empty name and without one; with all, some or
\* none of the optional parameters.
RawEntries ==
    { Raw(id, has \cup opt, name, IF id = Str(9) THEN "base" ELSE "day") :
        id \in RawIds,
        has \in {{"name"}, {}},
        name \in {"N", ""},
        opt \in {{}, OptParams, {"length", "type", "group"}} }

\* a YAML mapping has one row per key
RawCatalogs ==
    { l \in ListsUpTo(RawEntries, MaxRaw) :
        \A i, j \in 1..Len(l) : i # j => l[i].id # l[j].id }

\* val.get(p) for the mandatory parameter name is truthy
HasName(val) == "name" \in val.has /\ val.v.name # ""

\* item = val.copy() with the defaults of p_optional for the absent parameters
WithDefaults(val) ==
    Entry(val.id,
          val.v.name,
          IF "length" \in val.has THEN val.v.length ELSE NoneLen,
          IF "type" \in val.has THEN val.v.type ELSE NoneStr,
          IF "unit" \in val.has THEN val.v.unit ELSE "",
          IF "scale" \in val.has THEN val.v.scale ELSE 1,
          IF "writable" \in val.has THEN val.v.writable ELSE FALSE,
          IF "mqtt" \in val.has THEN val.v.mqtt ELSE NoneStr,
          IF "group" \in val.has THEN val.v.group ELSE NoneStr)

InitLoad ==
    /\ r_map \in RawCatalogs
    /\ r_idx = 1
    /\ error = FALSE
    /\ reg_groups = <<>>
    /\ register_map = <<>>
    /\ pc = "load_loop"
    /\ registers = <<>>
    /\ todo = <<>>
    /\ cluster = EmptyCluster
    /\ cluster_list = <<>>
    /\ CacheIdle
    /\ ReadIdle
    /\ RunIdle
    /\ WriteIdle
    /\ IterIdle

\* lines 139-147: the flag after the check of the mandatory parameters; it is
\* set on a missing name and is not cleared anywhere in the loop
ErrorAfterCheck(err, val) == err \/ ~HasName(val)

\* lines 137-158: one iteration of the loop over r_map.items()
LoadEntry ==
    /\ pc = "load_loop"
    /\ r_idx <= Len(r_map)
    /\ LET val  == r_map[r_idx]
           err  == ErrorAfterCheck(error, val)
           item == WithDefaults(val)
       IN  /\ error' = err
           /\ register_map' = IF err THEN register_map ELSE Append(register_map, item)
           /\ reg_groups' =
                  IF ~err /\ item.group # NoneStr
                          /\ \A i \in 1..Len(reg_groups) : reg_groups[i] # item.group
                  THEN Append(reg_groups, item.group)
                  ELSE reg_groups
    /\ r_idx' = r_idx + 1
    /\ UNCHANGED <<pc, r_map, planVars, cacheVars, readVars, runVars, histVars, writeVars, iterVars>>

\* line 159: return reg_map, reg_groups
LoadReturn ==
    /\ pc = "load_loop"
    /\ r_idx > Len(r_map)
    /\ pc' = "load_done"
    /\ UNCHANGED <<register_map, loadVars, planVars, cacheVars, readVars, runVars, histVars, writeVars, iterVars>>

NextLoad == LoadEntry \/ LoadReturn

SpecLoad == InitLoad /\ [][NextLoad]_vars

\* the rows of l that satisfy P, in order
RECURSIVE NamedRows(_)
NamedRows(l) ==
    IF l = <<>> THEN <<>>
    ELSE (IF HasName(l[1]) THEN <<WithDefaults(l[1])>> ELSE <<>>) \o NamedRows(Tail(l))

\* C7: the catalog returned by init_register_map holds every raw entry that
\* has a non-empty name, with the defaults filled in, and no entry without
\* one, wherever the invalid entries stand in the sequence.
C7_InvalidEntryRejectedAlone ==
    pc = "load_done" => register_map = NamedRows(r_map)

-----------------------------------------------------------------------------
(* Python values.  A value is a record [ty, n, d, s]:                       *)
(*   ty = "int":   the integer n                                            *)
(*   ty = "float": the number n/d in lowest terms, d > 0 (a Python float is *)
(*                 modelled by the exact quotient it approximates)          *)
(*   ty = "str":   the string s (character codes)                           *)
(*   ty = "none":  None                                                     *)
(*   ty = "exc":   the evaluation raised an exception                       *)

IntV(n) == [ty |-> "int", n |-> n, d |-> 1, s |-> <<>>]
StrV(s) == [ty |-> "str", n |-> 0, d |-> 1, s |-> s]
NoneV   == [ty |-> "none", n |-> 0, d |-> 1, s |-> <<>>]
Exc     == [ty |-> "exc", n |-> 0, d |-> 1, s |-> <<>>]

Abs(x) == IF x < 0 THEN -x ELSE x

RECURSIVE GCD(_, _)
GCD(a, b) == IF b = 0 THEN a ELSE GCD(b, a % b)

\* the float n/d, d # 0
FloatV(n, d) ==
    LET g  == GCD(Abs(n), Abs(d))
        sg == IF d < 0 THEN -1 ELSE 1
    IN  [ty |-> "float", n |-> (sg * n) \div g, d |-> Abs(d) \div g, s |-> <<>>]

IsNum(v) == v.ty \in {"int", "float"}

\* bool(v)
Truthy(v) ==
    CASE v.ty = "int"   -> v.n # 0
      [] v.ty = "float" -> v.n # 0
      [] v.ty = "str"   -> v.s # <<>>
      [] OTHER          -> FALSE

\* the numeric result n/d typed as Python types it: float if an operand is
\* a float, int otherwise
NumResult(a, b, n, d) ==
    IF a.ty = "float" \/ b.ty = "float" THEN FloatV(n, d) ELSE IntV(n \div d)

\* a + b
Add(a, b) ==
    IF IsNum(a) /\ IsNum(b) THEN NumResult(a, b, a.n * b.d + b.n * a.d, a.d * b.d)
    ELSE IF a.ty = "str" /\ b.ty = "str" THEN StrV(a.s \o b.s)
    ELSE Exc

\* a + b in the place of a - b
SubAsAdd(a, b) ==
    IF IsNum(a) /\ IsNum(b) THEN NumResult(a, b, a.n * b.d + b.n * a.d, a.d * b.d)
    ELSE Exc

\* a - b
Sub(a, b) ==
    IF IsNum(a) /\ IsNum(b) THEN NumResult(a, b, a.n * b.d - b.n * a.d, a.d * b.d)
    ELSE Exc

\* a * b for numbers
Mul(a, b) ==
    IF IsNum(a) /\ IsNum(b) THEN NumResult(a, b, a.n * b.n, a.d * b.d)
    ELSE Exc

\* a / b: true division, ZeroDivisionError on b = 0
Div(a, b) ==
    IF IsNum(a) /\ IsNum(b) /\ b.n # 0 THEN FloatV(a.n * b.d, a.d * b.n)
    ELSE Exc

\* v > 0 is True (a comparison that raises is told apart by GtRaises)
GtZero(v) == IsNum(v) /\ v.n > 0
GtRaises(v) == ~IsNum(v)

\* v < 0
LtZero(v) == IsNum(v) /\ v.n < 0

-----------------------------------------------------------------------------
(* Binary decoder: MTECModbusClient._decode_rawdata *)

WordSize == 65536
ByteSize == 256

\* registers[offset:]
Drop(l, k) == IF k >= Len(l) THEN <<>> ELSE SubSeq(l, k + 1, Len(l))

\* BinaryPayloadDecoder.fromRegisters(byteorder=BIG, wordorder=BIG): the
\* words as bytes, high byte first
RECURSIVE ToBytes(_)
ToBytes(words) ==
    IF words = <<>> THEN <<>>
    ELSE <<words[1] \div ByteSize, words[1] % ByteSize>> \o ToBytes(Tail(words))

\* big-endian unsigned value of a byte sequence
RECURSIVE BigEndian(_)
BigEndian(b) ==
    IF b = <<>> THEN 0
    ELSE BigEndian(SubSeq(b, 1, Len(b) - 1)) * ByteSize + b[Len(b)]

RECURSIVE Pow(_, _)
Pow(x, k) == IF k = 0 THEN 1 ELSE x * Pow(x, k - 1)

\* two's complement value of the unsigned u of k bytes
Signed(u, k) == IF u >= Pow(ByteSize, k) \div 2 THEN u - Pow(ByteSize, k) ELSE u

\* digits of n in the given base, at least width of them (zero padded)
RECURSIVE FmtBase(_, _, _)
FmtBase(n, base, width) ==
    IF n < base /\ width <= 1 THEN <<Digit0 + n>>
    ELSE FmtBase(n \div base, base, width - 1) \o <<Digit0 + (n % base)>>

\* f"{b:02d}" and f"{b:08b}"
Fmt02d(b) == FmtBase(b, 10, 2)
Fmt08b(b) == FmtBase(b, 2, 8)

Space == <<32>>
Dash  == <<45>>
Colon == <<58>>

\* the value the type branch of _decode_rawdata produces from the bytes b
\* (Exc when the decoder runs out of bytes or the type is unknown)
DecodeVal(b, item_type, item_length) ==
    CASE item_type = "U16" ->
             IF Len(b) < 2 THEN Exc ELSE IntV(BigEndian(SubSeq(b, 1, 2)))
      [] item_type = "I16" ->
             IF Len(b) < 2 THEN Exc ELSE IntV(Signed(BigEndian(SubSeq(b, 1, 2)), 2))
      [] item_type = "U32" ->
             IF Len(b) < 4 THEN Exc ELSE IntV(BigEndian(SubSeq(b, 1, 4)))
      [] item_type = "I32" ->
             IF Len(b) < 4 THEN Exc ELSE IntV(Signed(BigEndian(SubSeq(b, 1, 4)), 4))
      [] item_type = "BYTE" ->
             IF item_length = 1 THEN
                 IF Len(b) < 2 THEN Exc
                 ELSE StrV(Fmt02d(b[1]) \o Space \o Fmt02d(b[2]))
             ELSE IF item_length = 2 THEN
                 IF Len(b) < 4 THEN Exc
                 ELSE StrV(Fmt02d(b[1]) \o Space \o Fmt02d(b[2]) \o Space \o Space
                           \o Fmt02d(b[3]) \o Space \o Fmt02d(b[4]))
             ELSE IF item_length = 4 THEN
                 IF Len(b) < 8 THEN Exc
                 ELSE StrV(Fmt02d(b[1]) \o Space \o Fmt02d(b[2]) \o Space
                           \o Fmt02d(b[3]) \o Space \o Fmt02d(b[4]) \o Space \o Space
                           \o Fmt02d(b[5]) \o Space \o Fmt02d(b[6]) \o Space
                           \o Fmt02d(b[7]) \o Space \o Fmt02d(b[8]))
             ELSE NoneV
      [] item_type = "BIT" ->
             IF item_length = 1 THEN
                 IF Len(b) < 1 THEN Exc ELSE StrV(Fmt08b(b[1]))
             ELSE IF item_length = 2 THEN
                 IF Len(b) < 2 THEN Exc ELSE StrV(Fmt08b(b[1]) \o Space \o Fmt08b(b[2]))
             ELSE NoneV
      [] item_type = "DAT" ->
             IF Len(b) < 6 THEN Exc
             ELSE StrV(Fmt02d(b[1]) \o Dash \o Fmt02d(b[2]) \o Dash \o Fmt02d(b[3])
                       \o Space \o Fmt02d(b[4]) \o Colon \o Fmt02d(b[5]) \o Colon
                       \o Fmt02d(b[6]))
      [] item_type = "STR" ->
             \* decode_string(length * 2).decode(): the bytes that are there,
             \* as text; a byte above 127 is taken as undecodable
             LET n == IF Len(b) < item_length * 2 THEN Len(b) ELSE item_length * 2
             IN  IF \E i \in 1..n : b[i] > 127 THEN Exc
                 ELSE StrV(SubSeq(b, 1, n))
      [] OTHER -> Exc

\* a dict with an empty value returned on an error
NoDecodedPresent == [ok |-> TRUE, name |-> "", value |-> NoneV, unit |-> ""]

\* the empty dict _decode_rawdata returns on an error
NoDecoded == [ok |-> FALSE, name |-> "", value |-> NoneV, unit |-> ""]

\* the scaling step with the division applied to every value
ScaleAlways(val, item_scale) ==
    IF item_scale > 1 THEN Div(val, IntV(item_scale)) ELSE val

\* lines 259-261: if val and item_scale > 1: val /= item_scale
Scale(val, item_scale) ==
    IF Truthy(val) /\ item_scale > 1 THEN Div(val, IntV(item_scale)) ELSE val

\* _decode_rawdata without the scaling step
DecodeRawdataUnscaled(rawdata, offset, item) ==
    IF item.length = NoneLen THEN NoDecoded
    ELSE LET val == DecodeVal(ToBytes(Drop(rawdata, offset)), item.type, item.length)
         IN  IF val.ty = "exc" THEN NoDecoded
             ELSE [ok |-> TRUE, name |-> item.name, value |-> val, unit |-> item.unit]

\* _decode_rawdata(rawdata, offset, item): rawdata is the word list
DecodeRawdata(rawdata, offset, item) ==
    IF item.length = NoneLen THEN NoDecoded      \* int(None) raises
    ELSE LET val == DecodeVal(ToBytes(Drop(rawdata, offset)), item.type, item.length)
             scaled == IF val.ty = "exc" THEN Exc ELSE Scale(val, item.scale)
         IN  IF scaled.ty = "exc" THEN NoDecoded
             ELSE [ok |-> TRUE, name |-> item.name, value |-> scaled, unit |-> item.unit]

-----------------------------------------------------------------------------
(* Bus transport and MTECModbusClient.read_modbus_data *)

\* The device as the bus shows it during one call of read_modbus_data:
\*   mem:   holding register address -> 16-bit word
\*   fail:  the cluster reads of the call (by position in the plan) that end
\*          in an error or an exception
\*   short: the cluster reads that return one word less than requested
Bus(mem, fail, short) == [mem |-> mem, fail |-> fail, short |-> short]

MemAt(mem, a) == IF a \in DOMAIN mem THEN mem[a] % WordSize ELSE 0

\* the response None
NoResponse == [ok |-> FALSE, registers |-> <<>>]

\* _read_registers(register, length) for the k-th cluster of the call
\* the cluster reads of dev answered with one word more than requested
LongReads(dev) == IF "long" \in DOMAIN dev THEN dev.long ELSE {}

\* the words of the answer to the k-th cluster read
Answer(dev, k, start, length) ==
    LET n == IF k \in dev.short THEN length - 1
             ELSE IF k \in LongReads(dev) THEN length + 1
             ELSE length
    IN  [i \in 1..n |-> MemAt(dev.mem, start + i - 1)]

\* _read_registers taking an answer of any length
ReadRegistersAnyLength(dev, k, start, length) ==
    IF k \in dev.fail THEN NoResponse
    ELSE [ok |-> TRUE, registers |-> Answer(dev, k, start, length)]

ReadRegisters(dev, k, start, length) ==
    IF k \in dev.fail THEN NoResponse
    ELSE IF Len(Answer(dev, k, start, length)) # length THEN NoResponse
    ELSE [ok |-> TRUE, registers |-> Answer(dev, k, start, length)]

\* data.update({register: data_decoded})
DataPut(dat, key, val) ==
    [x \in (DOMAIN dat) \cup {key} |-> IF x = key THEN val ELSE dat[x]]

\* lines 106-115: the loop over the items of one cluster
RECURSIVE DecodeItems(_, _, _, _, _)
DecodeItems(dat, rawdata, start, offset, items) ==
    IF items = <<>> THEN dat
    ELSE LET item == items[1]
             register == Str(start + offset)
             decoded == DecodeRawdata(rawdata, offset, item)
             data1 == IF item.type # NoneStr /\ decoded.ok
                      THEN DataPut(dat, register,
                                   [name |-> decoded.name, value |-> decoded.value,
                                    unit |-> decoded.unit])
                      ELSE dat
         IN  DecodeItems(data1, rawdata, start, offset + item.length, Tail(items))

\* lines 95-115: the loop over the clusters, from the k-th on
RECURSIVE ReadClusters(_, _, _, _)
ReadClusters(dat, plan, k, dev) ==
    IF k > Len(plan) THEN dat
    ELSE LET c == plan[k]
             rawdata == ReadRegisters(dev, k, c.start, c.length)
             data1 == IF rawdata.ok
                      THEN DecodeItems(dat, rawdata.registers, c.start, 0, c.items)
                      ELSE dat
         IN  ReadClusters(data1, plan, k + 1, dev)

\* _cluster_cache after _get_register_clusters(registers)
CacheAfter(cache, map, regs) ==
    IF CacheKey(regs) \in DOMAIN cache THEN cache
    ELSE cache @@ (CacheKey(regs) :> CreateRegisterClusters(map, regs))

\* read_modbus_data(registers): the decoded map
\* read_modbus_data filling the dict left by the call before
ReadModbusDataRetained(map, cache, regs, dev) ==
    ReadClusters(data, CacheAfter(cache, map, regs)[CacheKey(regs)], 1, dev)

ReadModbusData(map, cache, regs, dev) ==
    ReadClusters(EmptyMap, CacheAfter(cache, map, regs)[CacheKey(regs)], 1, dev)

\* get_register_list(group): the ids of the group, in catalog order
RECURSIVE GetRegisterList(_, _)
GetRegisterList(map, g) ==
    IF map = <<>> THEN <<>>
    ELSE (IF map[1].group = g THEN <<map[1].id>> ELSE <<>>)
         \o GetRegisterList(Tail(map), g)

-----------------------------------------------------------------------------
(* Derived metric calculator: MtecCoordinator.read_mtec_data *)

ConsumptionDay      == 
    <<99, 111, 110, 115, 117, 109, 112, 116, 105, 111, 110, 45, 100, 97, 121>>
AutarkyDay          == 
    <<97, 117, 116, 97, 114, 107, 121, 45, 100, 97, 121>>
OwnConsumptionDay   == 
    <<111, 119, 110, 99, 111, 110, 115, 117, 109, 112, 116, 105, 111, 110, 45, 100, 97, 121>>
ConsumptionTotal    == 
    <<99, 111, 110, 115, 117, 109, 112, 116, 105, 111, 110, 45, 116, 111, 116, 97, 108>>
AutarkyTotal        == 
    <<97, 117, 116, 97, 114, 107, 121, 45, 116, 111, 116, 97, 108>>
OwnConsumptionTotal == 
    <<111, 119, 110, 99, 111, 110, 115, 117, 109, 112, 116, 105, 111, 110, 45, 116, 111, 116, 97, 108>>
ApiDate             == 
    <<97, 112, 105, 45, 100, 97, 116, 101>>

\* One entry of the snapshot pvdata: the publish key and either the decoded
\* dict of a register (isdict) or a derived scalar.
PvDict(key, d) ==
    [key |-> key, isdict |-> TRUE, name |-> d.name, unit |-> d.unit, value |-> d.value]
PvScalar(key, v) ==
    [key |-> key, isdict |-> FALSE, name |-> "", unit |-> "", value |-> v]

\* key in pvdata
PvHas(pv, key) == \E i \in 1..Len(pv) : pv[i].key = key

\* pvdata[key]
PvGet(pv, key) == pv[CHOOSE i \in 1..Len(pv) : pv[i].key = key]

\* pvdata[key] = e: a dict keeps the position of a key it already holds
PvSet(pv, key, e) ==
    IF PvHas(pv, key)
    THEN [i \in 1..Len(pv) |-> IF pv[i].key = key THEN e ELSE pv[i]]
    ELSE Append(pv, e)

\* a missing decoded value read as 0 instead of raising KeyError
ValueOrZero(dat, id) == IF id \in DOMAIN dat THEN dat[id].value ELSE IntV(0)

\* data[id]["value"]; KeyError when the register is not in the decoded map
ValueOf(dat, id) == IF id \in DOMAIN dat THEN dat[id].value ELSE Exc

\* 100 * (1 - a / b)
Ratio(a, b) == Mul(IntV(100), Sub(IntV(1), Div(a, b)))

\* a + b + c - d - e
Balance(a, b, c, d, e) == Sub(Sub(Add(Add(a, b), c), d), e)

\* the autarky formula reading a missing consumption as not positive
AutarkyLenient(dat, pv, ckey, id) ==
    IF ~PvHas(pv, ckey) THEN IntV(0)
    ELSE LET c == PvGet(pv, ckey)
         IN  IF ~c.isdict /\ IsNum(c.value) /\ GtZero(c.value)
             THEN Ratio(ValueOf(dat, id), c.value)
             ELSE IntV(0)

\* the autarky formula: the consumption is taken from the snapshot under the
\* fixed key ckey
Autarky(dat, pv, ckey, id) ==
    IF ~PvHas(pv, ckey) THEN Exc
    ELSE LET c == PvGet(pv, ckey)
         IN  IF ~c.isdict /\ IsNum(c.value) /\ GtZero(c.value)
             THEN Ratio(ValueOf(dat, id), c.value)
             ELSE IntV(0)

\* the own-consumption formula with the division done whatever the denominator
OwnConsumptionUnguarded(dat, num, den) ==
    Ratio(ValueOf(dat, num), ValueOf(dat, den))

\* the own-consumption formula
OwnConsumption(dat, num, den) ==
    LET v == ValueOf(dat, den)
    IN  IF GtRaises(v) THEN Exc
        ELSE IF GtZero(v) THEN Ratio(ValueOf(dat, num), v)
        ELSE IntV(0)

NamedFormulas ==
    {Consumption, ConsumptionDay, AutarkyDay, OwnConsumptionDay, ConsumptionTotal,
     AutarkyTotal, OwnConsumptionTotal, ApiDate}

\* lines 155-217: the value of a named pseudo-register
Formula(register, dat, pv, tnow) ==
    CASE register = Consumption ->
             Sub(ValueOf(dat, Str(11016)), ValueOf(dat, Str(11000)))
      [] register = ConsumptionDay ->
             Balance(ValueOf(dat, Str(31005)), ValueOf(dat, Str(31001)),
                     ValueOf(dat, Str(31004)), ValueOf(dat, Str(31000)),
                     ValueOf(dat, Str(31003)))
      [] register = AutarkyDay ->
             Autarky(dat, pv, "consumption_day", Str(31001))
      [] register = OwnConsumptionDay ->
             OwnConsumption(dat, Str(31000), Str(31005))
      [] register = ConsumptionTotal ->
             Balance(ValueOf(dat, Str(31112)), ValueOf(dat, Str(31104)),
                     ValueOf(dat, Str(31110)), ValueOf(dat, Str(31102)),
                     ValueOf(dat, Str(31108)))
      [] register = AutarkyTotal ->
             Autarky(dat, pv, "consumption_total", Str(31104))
      [] register = OwnConsumptionTotal ->
             OwnConsumption(dat, Str(31102), Str(31112))
      [] register = ApiDate -> StrV(Str(tnow))
      [] OTHER -> Exc

\* the clamp with the type test dropped
ClampAny(pv, key) ==
    LET value == PvGet(pv, key).value
    IN  IF ~PvGet(pv, key).isdict /\ LtZero(value)
        THEN PvSet(pv, key, PvScalar(key, IntV(0)))
        ELSE pv

\* no clamp
ClampNever(pv, key) == pv

\* lines 221-226: a negative float is reported as 0
Clamp(pv, key) ==
    LET value == PvGet(pv, key).value
    IN  IF ~PvGet(pv, key).isdict /\ value.ty = "float" /\ LtZero(value)
        THEN PvSet(pv, key, PvScalar(key, IntV(0)))
        ELSE pv

\* the snapshot state while the loop runs: ok falls when an exception is raised
PvState(ok, pv) == [ok |-> ok, pv |-> pv]

\* lines 154-226: the branch of a published pseudo-register
PseudoStep(st, item, dat, tnow) ==
    LET v   == IF item.id \in NamedFormulas
               THEN Formula(item.id, dat, st.pv, tnow)
               ELSE NoneV
        pv1 == IF item.id \in NamedFormulas /\ v.ty # "exc"
               THEN PvSet(st.pv, item.mqtt, PvScalar(item.mqtt, v))
               ELSE st.pv
    IN  IF v.ty = "exc" THEN PvState(FALSE, <<>>)
        ELSE IF ~PvHas(pv1, item.mqtt) THEN PvState(FALSE, <<>>)   \* KeyError
        ELSE PvState(TRUE, Clamp(pv1, item.mqtt))

\* lines 149-226: one iteration of the loop over the registers of the group
AssignStep(map, st, register, dat, tnow) ==
    LET item == Lookup(map, register)
    IN  IF ~st.ok THEN st
        ELSE IF item.mqtt = NoneStr THEN st
        ELSE IF IsNumeric(register)
             THEN IF register \in DOMAIN dat
                  THEN PvState(TRUE, PvSet(st.pv, item.mqtt,
                                           PvDict(item.mqtt, dat[register])))
                  ELSE PvState(FALSE, <<>>)                         \* KeyError
             ELSE PseudoStep(st, item, dat, tnow)

RECURSIVE AssignAll(_, _, _, _, _)
AssignAll(map, st, regs, dat, tnow) ==
    IF regs = <<>> THEN st
    ELSE AssignAll(map, AssignStep(map, st, regs[1], dat, tnow), Tail(regs), dat, tnow)

\* the snapshot built from the decoded map: {} when an exception was raised
Snapshot(map, regs, dat, tnow) ==
    LET st == AssignAll(map, PvState(TRUE, <<>>), regs, dat, tnow)
    IN  IF st.ok THEN st.pv ELSE <<>>

\* read_mtec_data(group): the snapshot
ReadMtecData(map, cache, g, dev, tnow) ==
    Snapshot(map, GetRegisterList(map, g),
             ReadModbusData(map, cache, GetRegisterList(map, g), dev), tnow)

-----------------------------------------------------------------------------
(* Publisher: MtecCoordinator.write_to_mqtt *)

\* str(n) for any integer
IntStr(n) == IF n < 0 THEN Dash \o Str(-n) ELSE Str(n)

\* lines 237-250: the payload of one snapshot entry.  kind tells how it was
\* produced: "float" through the configured float format, "raw" the decoded
\* value handed on as it is, "str" through str().
Payload(e) ==
    IF e.value.ty = "float" THEN [kind |-> "float", value |-> e.value]
    ELSE IF e.isdict THEN [kind |-> "raw", value |-> e.value]
    ELSE IF e.value.ty = "int" THEN [kind |-> "str", value |-> StrV(IntStr(e.value.n))]
    ELSE [kind |-> "str", value |-> e.value]

\* write_to_mqtt(pvdata, topic_base, group): the messages published, in order;
\* a topic is the list of its path segments
WriteToMqtt(pv, tbase, g) ==
    [i \in 1..Len(pv) |->
        [topic |-> <<tbase, g, pv[i].key>>, payload |-> Payload(pv[i])]]

-----------------------------------------------------------------------------
(* Specification SpecRead: one poll of one group, read_mtec_data followed   *)
(* by write_to_mqtt when the snapshot is not empty                          *)

MaxWord == 1        \* largest word value the device holds

\* an unknown pseudo-register id: "foo"
Foo == <<102, 111, 111>>

\* the registers of group base and its pseudo-registers
BaseRegs(pub, sc) ==
    << Entry(Str(11000), "Grid power", 1, "U16", "W", sc, FALSE,
             IF pub THEN "grid" ELSE NoneStr, "base"),
       Entry(Str(11016), "Inverter power", 1, "U16", "W", sc, FALSE,
             IF pub THEN "inverter" ELSE NoneStr, "base"),
       Entry(Consumption, "Consumption", NoneLen, NoneStr, "W", 1, FALSE,
             "consumption", "base"),
       Entry(ApiDate, "API date", NoneLen, NoneStr, "", 1, FALSE, "api_date", "base") >>

\* a pseudo-register of group g published under key (NoneStr: unpublished)
Pseudo(id, key, g) == Entry(id, "derived", NoneLen, NoneStr, "", 1, FALSE, key, g)

\* a one-word register of group day
DayReg(a, key, pub, sc, type) ==
    Entry(Str(a), "day energy", 1, type, "kWh", sc, FALSE,
          IF pub THEN key ELSE NoneStr, "day")

\* the pseudo-registers of group day in the arrangement v
DayPseudo(v) ==
    CASE v = 1 -> << Pseudo(ConsumptionDay, "consumption_day", "day"),
                     Pseudo(AutarkyDay, "autarky_day", "day"),
                     Pseudo(OwnConsumptionDay, "ownconsumption_day", "day") >>
      [] v = 2 -> << Pseudo(AutarkyDay, "autarky_day", "day"),
                     Pseudo(ConsumptionDay, "consumption_day", "day") >>
      [] v = 3 -> << Pseudo(OwnConsumptionDay, "ownconsumption_day", "day") >>
      [] v = 4 -> << Pseudo(ConsumptionDay, "consumption_day", "day"),
                     Pseudo(Foo, "foo", "day"),
                     Pseudo(OwnConsumptionDay, "ownconsumption_day", "day") >>
      [] v = 6 -> << Pseudo(ConsumptionDay, NoneStr, "day"),
                     Pseudo(AutarkyDay, "autarky_day", "day") >>
      [] v = 7 -> << Pseudo(ConsumptionDay, "cons_day", "day"),
                     Pseudo(AutarkyDay, "autarky_day", "day") >>
      [] OTHER -> << Pseudo(ConsumptionDay, NoneStr, "day"),
                     Pseudo(OwnConsumptionDay, "ownconsumption_day", "day") >>

DayRegs(pub, sc, typed, v) ==
    << DayReg(31000, "grid_feed_day", pub, sc, "U16"),
       DayReg(31001, "grid_purchase_day", pub, sc, "U16"),
       DayReg(31003, "battery_charge_day", pub, sc, "U16"),
       DayReg(31004, "battery_discharge_day", pub, sc, "U16"),
       DayReg(31005, "pv_day", pub, sc, IF typed THEN "U16" ELSE "XX") >>
    \o DayPseudo(v)

\* a two-word register of group total
TotalReg(a, key, pub, sc, type) ==
    Entry(Str(a), "total energy", 2, type, "kWh", sc, FALSE,
          IF pub THEN key ELSE NoneStr, "total")

TotalPseudo(v) ==
    CASE v = 1 -> << Pseudo(ConsumptionTotal, "consumption_total", "total"),
                     Pseudo(AutarkyTotal, "autarky_total", "total"),
                     Pseudo(OwnConsumptionTotal, "ownconsumption_total", "total") >>
      [] v = 2 -> << Pseudo(AutarkyTotal, "autarky_total", "total"),
                     Pseudo(ConsumptionTotal, "consumption_total", "total") >>
      [] v = 3 -> << Pseudo(OwnConsumptionTotal, "ownconsumption_total", "total") >>
      [] v = 4 -> << Pseudo(ConsumptionTotal, "consumption_total", "total"),
                     Pseudo(Foo, "foo", "total"),
                     Pseudo(OwnConsumptionTotal, "ownconsumption_total", "total") >>
      [] v = 6 -> << Pseudo(ConsumptionTotal, NoneStr, "total"),
                     Pseudo(AutarkyTotal, "autarky_total", "total") >>
      [] v = 7 -> << Pseudo(ConsumptionTotal, "cons_total", "total"),
                     Pseudo(AutarkyTotal, "autarky_total", "total") >>
      [] OTHER -> << Pseudo(ConsumptionTotal, NoneStr, "total"),
                     Pseudo(OwnConsumptionTotal, "ownconsumption_total", "total") >>

TotalRegs(pub, sc, typed, v) ==
    << TotalReg(31102, "grid_feed_total", pub, sc, "U32"),
       TotalReg(31104, "grid_purchase_total", pub, sc, "U32"),
       TotalReg(31108, "battery_charge_total", pub, sc, "U32"),
       TotalReg(31110, "battery_discharge_total", pub, sc, "U32"),
       TotalReg(31112, "pv_total", pub, sc, IF typed THEN "U32" ELSE "XX") >>
    \o TotalPseudo(v)

PseudoArrangements == 1..7

\* the catalogs a poll of group g is tried on
ReadCatalogs(g) ==
    CASE g = "base" ->
             { BaseRegs(pub, sc) \o DayRegs(TRUE, 1, TRUE, 1) :
                 pub \in BOOLEAN, sc \in {1, 10} }
      [] g = "day" ->
             { BaseRegs(TRUE, 1) \o DayRegs(pub, sc, typed, v) :
                 pub \in BOOLEAN, sc \in {1, 10}, typed \in BOOLEAN,
                 v \in PseudoArrangements }
      [] OTHER ->
             { BaseRegs(TRUE, 1) \o TotalRegs(pub, sc, typed, v) :
                 pub \in BOOLEAN, sc \in {1, 10}, typed \in BOOLEAN,
                 v \in PseudoArrangements }

\* the addresses whose word varies when group g is read (for the two-word
\* registers of group total the low word); every other word is 0
VaryingAddrs(g) ==
    CASE g = "base" -> {11000, 11016}
      [] g = "day"  -> {31000, 31001, 31004, 31005}
      [] OTHER      -> {31103, 31105, 31111, 31113}

\* what the device may show during one poll of group g: any words, and each
\* of the first two cluster reads ending well, in an error, or short
Buses(g) ==
    { Bus(mem, fail, short) :
        mem \in [VaryingAddrs(g) -> 0..MaxWord],
        fail \in SUBSET {1, 2},
        short \in {{}, {1}} }

ReadGroups == {"base", "day", "total"}

InitRead ==
    /\ group \in ReadGroups
    /\ register_map \in ReadCatalogs(group)
    /\ bus \in Buses(group)
    /\ clock = 0
    /\ data = EmptyMap
    /\ pvdata = <<>>
    /\ published = <<>>
    /\ pc = "read_call"
    /\ registers = <<>>
    /\ todo = <<>>
    /\ cluster = EmptyCluster
    /\ cluster_list = <<>>
    /\ CacheIdle
    /\ LoadIdle
    /\ RunIdle
    /\ WriteIdle
    /\ IterIdle

\* read_mtec_data(group), lines 141-231
ReadCall ==
    /\ pc = "read_call"
    /\ LET regs == GetRegisterList(register_map, group)
       IN  /\ cluster_cache' = CacheAfter(cluster_cache, register_map, regs)
           /\ data' = ReadModbusData(register_map, cluster_cache, regs, bus)
           /\ pvdata' = ReadMtecData(register_map, cluster_cache, group, bus, clock)
    /\ pc' = "read_done"
    /\ UNCHANGED <<register_map, planVars, requested, created, ncalls, loadVars,
                   group, bus, clock, published, runVars, histVars, writeVars, iterVars>>

\* if pvdata: write_to_mqtt(pvdata, topic_base, group)
PublishCall ==
    /\ pc = "read_done"
    /\ pvdata # <<>>
    /\ published' = WriteToMqtt(pvdata, <<"MTEC", "serial">>, group)
    /\ pc' = "read_published"
    /\ UNCHANGED <<register_map, planVars, cacheVars, loadVars,
                   group, bus, clock, data, pvdata, runVars, histVars, writeVars, iterVars>>

NextRead == ReadCall \/ PublishCall

SpecRead == InitRead /\ [][NextRead]_vars

-----------------------------------------------------------------------------
(* Claims about read_mtec_data *)

\* the rows of the catalog that are not published pseudo-registers with an
\* id outside the named formulas
RECURSIVE WithoutUnknownPseudo(_)
WithoutUnknownPseudo(map) ==
    IF map = <<>> THEN <<>>
    ELSE (IF ~IsNumeric(map[1].id) /\ map[1].mqtt # NoneStr
             /\ map[1].id \notin NamedFormulas
          THEN <<>> ELSE <<map[1]>>)
         \o WithoutUnknownPseudo(Tail(map))

\* C5: a published pseudo-register whose id is none of the named formulas is
\* skipped alone: the snapshot of the poll is the snapshot the same poll
\* yields on the catalog without that entry (every other published register
\* and derived value of the group is in it).
C5_UnknownPseudoSkippedAlone ==
    pc = "read_done" =>
        pvdata = ReadMtecData(WithoutUnknownPseudo(register_map), EmptyMap,
                              group, bus, clock)

\* The decoded registers whose value the evaluation of a pseudo-register's
\* formula reads (the numerator of a ratio only where the denominator is
\* positive, as the formulas are 0 otherwise).
Needs(register) ==
    CASE register = Consumption -> {Str(11016), Str(11000)}
      [] register = ConsumptionDay ->
             {Str(31005), Str(31001), Str(31004), Str(31000), Str(31003)}
      [] register = OwnConsumptionDay ->
             {Str(31005)} \cup
             (IF Str(31005) \in DOMAIN data /\ GtZero(data[Str(31005)].value)
              THEN {Str(31000)} ELSE {})
      [] register = AutarkyDay ->
             IF PvHas(pvdata, "consumption_day")
                /\ ~PvGet(pvdata, "consumption_day").isdict
                /\ GtZero(PvGet(pvdata, "consumption_day").value)
             THEN {Str(31001)} ELSE {}
      [] register = ConsumptionTotal ->
             {Str(31112), Str(31104), Str(31110), Str(31102), Str(31108)}
      [] register = OwnConsumptionTotal ->
             {Str(31112)} \cup
             (IF Str(31112) \in DOMAIN data /\ GtZero(data[Str(31112)].value)
              THEN {Str(31102)} ELSE {})
      [] register = AutarkyTotal ->
             IF PvHas(pvdata, "consumption_total")
                /\ ~PvGet(pvdata, "consumption_total").isdict
                /\ GtZero(PvGet(pvdata, "consumption_total").value)
             THEN {Str(31104)} ELSE {}
      [] OTHER -> {}

\* the published pseudo-registers of the polled group
PublishedPseudo ==
    { i \in 1..Len(register_map) :
        /\ register_map[i].group = group
        /\ register_map[i].mqtt # NoneStr
        /\ ~IsNumeric(register_map[i].id) }

-----------------------------------------------------------------------------
(* Specification SpecRun: the poll scheduler, MtecCoordinator.run with the  *)
(* stop signal and MtecCoordinator.stop                                     *)

MaxIter == 5        \* iterations of the main loop
MaxRetry == 1       \* failed initial config reads
MaxRefresh == 2     \* longest refresh interval of day, in seconds

InitialRetryWait == 10

\* SECONDARY_REGISTER_GROUPS: rotation index -> group
SecondaryGroups ==
    [i \in 0..4 |->
        CASE i = 0 -> "now-grid"
          [] i = 1 -> "now-inverter"
          [] i = 2 -> "now-backup"
          [] i = 3 -> "now-battery"
          [] OTHER -> "now-pv"]

LongGroups == {"day", "total", "config"}

\* a one-word published register of group g
SimpleReg(a, key, g) == Entry(Str(a), key, 1, "U16", "", 1, FALSE, key, g)

\* The catalog the scheduler runs on: the serial number in group config, two
\* registers and two pseudo-registers in group base, one register in each
\* secondary group, in day and in total; group now-backup also has a published
\* register of a type the decoder does not know, group now-battery an
\* unpublished one; group now-pv has an unpublished register in a cluster of
\* its own.
RunCatalog ==
    << SimpleReg(10000, "serial_no", "config") >>
    \o BaseRegs(TRUE, 1)
    \o << SimpleReg(11006, "grid_a", "now-grid"),
          SimpleReg(11032, "inverter_a", "now-inverter"),
          SimpleReg(30230, "backup_a", "now-backup"),
          Entry(Str(30231), "backup_b", 1, "XX", "", 1, FALSE, "backup_b", "now-backup"),
          SimpleReg(30254, "battery_soc", "now-battery"),
          Entry(Str(30255), "battery_b", 1, "XX", "", 1, FALSE, NoneStr, "now-battery"),
          SimpleReg(11038, "pv_a", "now-pv"),
          Entry(Str(11040), "pv_b", 1, "U16", "", 1, FALSE, NoneStr, "now-pv"),
          SimpleReg(31000, "pv_day", "day"),
          SimpleReg(31102, "pv_total", "total") >>

BaseGroup == "base"

\* the plan of group g
PlanOf(map, g) == CreateRegisterClusters(map, GetRegisterList(map, g))

\* what the device may show during a poll of group g: the word 1 at the first
\* address of the group, every cluster read answered, or the first not, or
\* the last not
RunBuses(map, g) ==
    { Bus([a \in {PlanOf(map, g)[1].start} |-> 1], fail, {}) :
        fail \in {{}, {1}, {Len(PlanOf(map, g))}} }

InitRun ==
    /\ register_map = RunCatalog
    /\ pc = "run_start"
    /\ run_status = TRUE
    /\ mqtt_running = TRUE
    /\ connected = FALSE
    /\ clock = 0
    /\ refresh \in { [now |-> 1, day |-> d, total |-> d + 1, config |-> d + 2] :
                        d \in 1..MaxRefresh }
    /\ now = 0
    /\ now_ext_idx = 0
    /\ next_read_config = 0
    /\ next_read_day = 0
    /\ next_read_total = 0
    /\ topic_base = NoTopic
    /\ group = ""
    /\ bus = [mem |-> EmptyMap, fail |-> {}, short |-> {}]
    /\ data = EmptyMap
    /\ pvdata = <<>>
    /\ published = <<>>
    /\ iter_polls = <<>>
    /\ iter_failed = {}
    /\ prev_failed = {}
    /\ sec_hist = <<>>
    /\ polled = {}
    /\ config_ok = FALSE
    /\ published_any = FALSE
    /\ iters = 0
    /\ retries = 0
    /\ signal_at = ""
    /\ registers = <<>>
    /\ todo = <<>>
    /\ cluster = EmptyCluster
    /\ cluster_list = <<>>
    /\ CacheIdle
    /\ LoadIdle
    /\ WriteIdle
    /\ IterIdle

\* the positions of run inside an iteration of the main loop
InIteration == {"base", "secondary", "day", "total", "config", "sleep"}

\* the signal handled by leaving the loop at once
SignalHandlerAbort ==
    /\ pc # "stopped"
    /\ run_status = TRUE
    /\ run_status' = FALSE
    /\ signal_at' = pc
    /\ pc' = IF pc \in InIteration THEN "stop" ELSE pc
    /\ UNCHANGED <<register_map, planVars, cacheVars, loadVars, readVars,
                   now, now_ext_idx, next_read_config, next_read_day, next_read_total,
                   refresh, topic_base, connected, mqtt_running, iter_polls,
                   iter_failed, prev_failed, sec_hist, polled, config_ok,
                   published_any, iters, retries, writeVars, iterVars>>

\* signal_handler: run_status = False
SignalHandler ==
    /\ pc # "stopped"
    /\ run_status = TRUE
    /\ run_status' = FALSE
    /\ signal_at' = pc
    /\ UNCHANGED <<register_map, pc, planVars, cacheVars, loadVars, readVars,
                   now, now_ext_idx, next_read_config, next_read_day, next_read_total,
                   refresh, topic_base, connected, mqtt_running, iter_polls,
                   iter_failed, prev_failed, sec_hist, polled, config_ok,
                   published_any, iters, retries, writeVars, iterVars>>

\* run starting with the long intervals due one interval from now
RunStartNotDue ==
    /\ pc = "run_start"
    /\ next_read_config' = clock + refresh.config
    /\ next_read_day' = clock + refresh.day
    /\ next_read_total' = clock + refresh.total
    /\ now_ext_idx' = 0
    /\ connected' = TRUE
    /\ pc' = "init"
    /\ UNCHANGED <<register_map, planVars, cacheVars, loadVars, readVars,
                   run_status, now, refresh, topic_base, mqtt_running, histVars,
                   writeVars, iterVars>>

\* run, lines 75-80: the due times, the rotation index, connect
RunStart ==
    /\ pc = "run_start"
    /\ next_read_config' = clock
    /\ next_read_day' = clock
    /\ next_read_total' = clock
    /\ now_ext_idx' = 0
    /\ connected' = TRUE
    /\ pc' = "init"
    /\ UNCHANGED <<register_map, planVars, cacheVars, loadVars, readVars,
                   run_status, now, refresh, topic_base, mqtt_running, histVars, writeVars, iterVars>>

\* read_mtec_data(group=g) as a step of run: the read and what it leaves
ReadStep(g, dev) ==
    /\ group' = g
    /\ bus' = dev
    /\ cluster_cache' = CacheAfter(cluster_cache, register_map,
                                   GetRegisterList(register_map, g))
    /\ data' = ReadModbusData(register_map, cluster_cache,
                              GetRegisterList(register_map, g), dev)
    /\ pvdata' = ReadMtecData(register_map, cluster_cache, g, dev, clock)
    /\ polled' = polled \cup {g}

\* if pvdata := read_mtec_data(group): write_to_mqtt(pvdata, topic_base, group)
PollStep(g, dev) ==
    /\ ReadStep(g, dev)
    /\ published' = IF pvdata' # <<>> THEN WriteToMqtt(pvdata', topic_base, g) ELSE <<>>
    /\ published_any' = (published_any \/ pvdata' # <<>>)
    /\ iter_polls' = Append(iter_polls, g)
    /\ iter_failed' = IF g \in LongGroups /\ pvdata' = <<>>
                      THEN iter_failed \cup {g} ELSE iter_failed

\* a step of run that polls nothing
NoPoll ==
    UNCHANGED <<group, bus, cluster_cache, data, pvdata, polled, published,
                published_any, iter_polls, iter_failed>>

\* the initial loop left at once, whatever the config read returned
InitDoneAlways(pv) == TRUE

\* while not pv_config: the loop ends on a non-empty snapshot
InitDone(pv) == pv # <<>>

\* lines 83-91: one turn of the initial loop
InitConfig ==
    /\ pc = "init"
    /\ \E dev \in RunBuses(register_map, "config") :
        /\ ReadStep("config", dev)
        /\ IF InitDone(pvdata')
           THEN /\ topic_base' =
                       IF PvHas(pvdata', "serial_no")
                       THEN <<"MTEC", PvGet(pvdata', "serial_no").value>>
                       ELSE NoTopic
                /\ config_ok' = (pvdata' # <<>>)
                /\ pc' = "top"
                /\ UNCHANGED <<clock, retries>>
           ELSE /\ retries < MaxRetry
                /\ clock' = clock + InitialRetryWait       \* time.sleep(10)
                /\ retries' = retries + 1
                /\ UNCHANGED <<topic_base, config_ok, pc>>
    /\ UNCHANGED <<register_map, planVars, requested, created, ncalls, loadVars,
                   published, run_status, now, now_ext_idx, next_read_config,
                   next_read_day, next_read_total, refresh, connected, mqtt_running,
                   iter_polls, iter_failed, prev_failed, sec_hist, published_any, iters,
                   signal_at, writeVars, iterVars>>

\* lines 98-99: while run_status: now = datetime.now()
LoopTest ==
    /\ pc = "top"
    /\ IF run_status
       THEN /\ iters < MaxIter
            /\ now' = clock
            /\ prev_failed' = iter_failed
            /\ iter_polls' = <<>>
            /\ iter_failed' = {}
            /\ pc' = "base"
       ELSE /\ pc' = "stop"
            /\ UNCHANGED <<now, prev_failed, iter_polls, iter_failed>>
    /\ UNCHANGED <<register_map, planVars, cacheVars, loadVars, readVars,
                   run_status, now_ext_idx, next_read_config, next_read_day,
                   next_read_total, refresh, topic_base, connected, mqtt_running,
                   sec_hist, polled, config_ok, published_any, iters, retries, signal_at, writeVars, iterVars>>

\* group base, the loop left when the read returns nothing
PollBaseGiveUp ==
    /\ pc = "base"
    /\ \E dev \in RunBuses(register_map, BaseGroup) : PollStep(BaseGroup, dev)
    /\ pc' = IF pvdata' = <<>> THEN "stop" ELSE "secondary"
    /\ UNCHANGED <<register_map, planVars, requested, created, ncalls, loadVars,
                   clock, runVars, prev_failed, sec_hist, config_ok, iters, retries, signal_at, writeVars, iterVars>>

\* lines 101-103: group base
PollBase ==
    /\ pc = "base"
    /\ \E dev \in RunBuses(register_map, BaseGroup) : PollStep(BaseGroup, dev)
    /\ pc' = "secondary"
    /\ UNCHANGED <<register_map, planVars, requested, created, ncalls, loadVars,
                   clock, runVars, prev_failed, sec_hist, config_ok, iters, retries, signal_at, writeVars, iterVars>>

\* the rotation index advanced without the wrap
AdvanceNoWrap(idx) == idx + 1

\* lines 111-114
Advance(idx) == IF idx >= 4 THEN 0 ELSE idx + 1

\* the last k elements of l
LastOf(l, k) == IF Len(l) <= k THEN l ELSE SubSeq(l, Len(l) - k + 1, Len(l))

\* lines 105-114: the secondary group at the rotation index, the index advanced
PollSecondary ==
    /\ pc = "secondary"
    /\ IF now_ext_idx \in DOMAIN SecondaryGroups
       THEN /\ \E dev \in RunBuses(register_map, SecondaryGroups[now_ext_idx]) :
                    PollStep(SecondaryGroups[now_ext_idx], dev)
            /\ sec_hist' = LastOf(Append(sec_hist, SecondaryGroups[now_ext_idx]), 5)
       ELSE /\ NoPoll
            /\ UNCHANGED sec_hist
    /\ now_ext_idx' = Advance(now_ext_idx)
    /\ pc' = "day"
    /\ UNCHANGED <<register_map, planVars, requested, created, ncalls, loadVars,
                   clock, run_status, now, next_read_config, next_read_day,
                   next_read_total, refresh, topic_base, connected, mqtt_running,
                   prev_failed, config_ok, iters, retries, signal_at, writeVars, iterVars>>

\* the due time moved whatever the read returned
NextDueAlways(old, pv, t) == t

\* the due time after a poll: moved to t only when the snapshot is not empty
NextDue(old, pv, t) == IF pv # <<>> THEN t ELSE old

\* lines 116-119: group day
PollDay ==
    /\ pc = "day"
    /\ IF next_read_day <= now
       THEN /\ \E dev \in RunBuses(register_map, "day") : PollStep("day", dev)
            /\ next_read_day' = NextDue(next_read_day, pvdata', clock + refresh.day)
       ELSE /\ NoPoll
            /\ UNCHANGED next_read_day
    /\ pc' = "total"
    /\ UNCHANGED <<register_map, planVars, requested, created, ncalls, loadVars,
                   clock, run_status, now, now_ext_idx, next_read_config,
                   next_read_total, refresh, topic_base, connected, mqtt_running,
                   prev_failed, sec_hist, config_ok, iters, retries, signal_at, writeVars, iterVars>>

\* lines 121-126: group total
PollTotal ==
    /\ pc = "total"
    /\ IF next_read_total <= now
       THEN /\ \E dev \in RunBuses(register_map, "total") : PollStep("total", dev)
            /\ next_read_total' = NextDue(next_read_total, pvdata', clock + refresh.total)
       ELSE /\ NoPoll
            /\ UNCHANGED next_read_total
    /\ pc' = "config"
    /\ UNCHANGED <<register_map, planVars, requested, created, ncalls, loadVars,
                   clock, run_status, now, now_ext_idx, next_read_config,
                   next_read_day, refresh, topic_base, connected, mqtt_running,
                   prev_failed, sec_hist, config_ok, iters, retries, signal_at, writeVars, iterVars>>

\* lines 128-135: group config
PollConfig ==
    /\ pc = "config"
    /\ IF next_read_config <= now
       THEN /\ \E dev \in RunBuses(register_map, "config") : PollStep("config", dev)
            /\ next_read_config' =
                   NextDue(next_read_config, pvdata', clock + refresh.config)
       ELSE /\ NoPoll
            /\ UNCHANGED next_read_config
    /\ pc' = "sleep"
    /\ UNCHANGED <<register_map, planVars, requested, created, ncalls, loadVars,
                   clock, run_status, now, now_ext_idx, next_read_day,
                   next_read_total, refresh, topic_base, connected, mqtt_running,
                   prev_failed, sec_hist, config_ok, iters, retries, signal_at, writeVars, iterVars>>

\* lines 137-139: time.sleep(refresh_now_interval)
Sleep ==
    /\ pc = "sleep"
    /\ clock' = clock + refresh.now
    /\ iters' = iters + 1
    /\ pc' = "top"
    /\ UNCHANGED <<register_map, planVars, cacheVars, loadVars, group, bus, data,
                   pvdata, published, runVars, iter_polls, iter_failed, prev_failed,
                   sec_hist,
                   polled, config_ok, published_any, retries, signal_at, writeVars, iterVars>>

\* MtecCoordinator.stop, after run has returned
Stop ==
    /\ pc = "stop"
    /\ connected' = FALSE
    /\ mqtt_running' = FALSE
    /\ pc' = "stopped"
    /\ UNCHANGED <<register_map, planVars, cacheVars, loadVars, readVars,
                   run_status, now, now_ext_idx, next_read_config, next_read_day,
                   next_read_total, refresh, topic_base, histVars, writeVars, iterVars>>

NextRun ==
    \/ SignalHandler
    \/ RunStart
    \/ InitConfig
    \/ LoopTest
    \/ PollBase
    \/ PollSecondary
    \/ PollDay
    \/ PollTotal
    \/ PollConfig
    \/ Sleep
    \/ Stop

SpecRun == InitRun /\ [][NextRun]_vars

-----------------------------------------------------------------------------
(* The scheduler claims                                                     *)

\* the groups in a sequence of polls
Groups(polls) == { polls[i] : i \in 1..Len(polls) }

\* the secondary polls among a sequence of polls
IsSecondary(g) == \E i \in DOMAIN SecondaryGroups : SecondaryGroups[i] = g
SecondaryPolls(polls) == SelectSeq(polls, IsSecondary)

\* positions of run before and after the rotation step of an iteration
BeforeRotation == {"top", "base", "secondary"}
AfterRotation == {"day", "total", "config", "sleep"}

\* C8: in every iteration of the main loop exactly one secondary group is
\* polled, the one at the rotation index; the index starts at 0, stays in
\* 0..4 and advances by one per iteration, wrapping 4 to 0, whether or not the
\* secondary poll returned a snapshot; any five consecutive iterations poll
\* each of the five secondary groups exactly once.
C8_SecondaryRotation ==
    /\ [](now_ext_idx \in 0..4)
    /\ [](pc \in BeforeRotation => now_ext_idx = iters % 5)
    /\ [](pc \in AfterRotation =>
            /\ now_ext_idx = (iters + 1) % 5
            /\ SecondaryPolls(iter_polls) = << SecondaryGroups[iters % 5] >>)
    /\ [](Len(sec_hist) = 5 =>
            \A i \in DOMAIN SecondaryGroups :
                Cardinality({ j \in 1..5 : sec_hist[j] = SecondaryGroups[i] }) = 1)
    /\ [][pc = "secondary" /\ pc' = "day" =>
            /\ now_ext_idx' = (now_ext_idx + 1) % 5
            /\ group' = SecondaryGroups[now_ext_idx]]_vars

\* the fifth iteration has polled the last secondary group, the poll returned
\* nothing, and the index has wrapped to 0
C8_Witness ==
    /\ pc = "day"
    /\ iters = 4
    /\ group = SecondaryGroups[4]
    /\ pvdata = <<>>
    /\ Len(sec_hist) = 5
    /\ now_ext_idx = 0

\* C9, one group: its due time changes only at its own step, when it was due
\* and the read returned a snapshot, and then becomes the time of the poll
\* plus its interval; the due times of the other two groups do not change at
\* that step.
Reschedules(g, at, due, due2, interval, o1, o2, o1b, o2b) ==
    /\ (due2 # due =>
            /\ pc = at
            /\ due <= now
            /\ group' = g
            /\ pvdata' # <<>>
            /\ due2 = clock + interval)
    /\ (pc = at /\ pc' # at /\ due <= now =>
            /\ g \in Groups(iter_polls')
            /\ (pvdata' # <<>> => due2 = clock + interval)
            /\ (pvdata' = <<>> => due2 = due /\ g \in iter_failed')
            /\ o1b = o1
            /\ o2b = o2)

\* C9: each of the groups day, total and config reschedules its own due time
\* only in an iteration where it was due and its read returned a non-empty
\* snapshot; after an empty read its due time is unchanged and the group is
\* polled again in the next iteration; the outcome of one group never changes
\* the due time of another.
C9_RescheduleOnlyOnSuccess ==
    /\ [][pc # "run_start" =>
            /\ Reschedules("day", "day", next_read_day, next_read_day',
                           refresh.day, next_read_total, next_read_config,
                           next_read_total', next_read_config')
            /\ Reschedules("total", "total", next_read_total, next_read_total',
                           refresh.total, next_read_day, next_read_config,
                           next_read_day', next_read_config')
            /\ Reschedules("config", "config", next_read_config, next_read_config',
                           refresh.config, next_read_day, next_read_total,
                           next_read_day', next_read_total')]_vars
    /\ [](pc = "sleep" => prev_failed \subseteq Groups(iter_polls))

\* the read of day failed in the previous iteration while total was read and
\* rescheduled; this iteration has polled day again and has not polled total
C9_Witness ==
    /\ pc = "sleep"
    /\ prev_failed = {"day"}
    /\ "day" \in Groups(iter_polls)
    /\ "total" \notin Groups(iter_polls)
    /\ next_read_total > now

\* C10: the initial loop blocks until the first non-empty config read: an
\* empty read waits 10 s and reads config again, and before the first
\* non-empty config read no other group is polled and nothing is published.
C10_InitBlocksUntilConfig ==
    /\ [](~config_ok =>
            /\ polled \subseteq {"config"}
            /\ pc \in {"run_start", "init"}
            /\ published = <<>>
            /\ ~published_any)
    /\ [][pc = "init" /\ run_status' = run_status =>
            /\ group' = "config"
            /\ IF pvdata' = <<>>
               THEN pc' = "init" /\ clock' = clock + InitialRetryWait /\ ~config_ok'
               ELSE pc' = "top" /\ clock' = clock /\ config_ok']_vars

\* an initial config read has failed: the loop has waited 10 s and is about to
\* read config again, nothing else was polled
C10_Witness ==
    /\ pc = "init"
    /\ retries >= 1
    /\ pvdata = <<>>
    /\ polled = {"config"}
    /\ clock = retries * InitialRetryWait
    /\ ~config_ok

\* the position of run that follows a position inside an iteration
Successor(p) ==
    CASE p = "base" -> "secondary"
      [] p = "secondary" -> "day"
      [] p = "day" -> "total"
      [] p = "total" -> "config"
      [] p = "config" -> "sleep"
      [] OTHER -> "top"

\* the group a position of the iteration polls, "" when it polls none
GroupDue(p) ==
    CASE p = "base" -> BaseGroup
      [] p = "secondary" -> SecondaryGroups[now_ext_idx]
      [] p = "day" /\ next_read_day <= now -> "day"
      [] p = "total" /\ next_read_total <= now -> "total"
      [] p = "config" /\ next_read_config <= now -> "config"
      [] OTHER -> ""

\* the step at a position of the iteration runs as it does with the flag set
StepRuns ==
    /\ pc' = Successor(pc)
    /\ IF GroupDue(pc) = ""
       THEN UNCHANGED <<group, bus, data, pvdata, published, polled, iter_polls>>
       ELSE /\ iter_polls' = Append(iter_polls, GroupDue(pc))
            /\ group' = GroupDue(pc)
            /\ published' = IF pvdata' = <<>> THEN <<>>
                            ELSE WriteToMqtt(pvdata', topic_base, group')

\* C11: the stop flag is observed only at the top of an iteration: with the
\* flag cleared inside an iteration every remaining step of the iteration
\* still runs, polls its group when due and publishes a non-empty snapshot;
\* run leaves the loop only at the top; no further iteration starts; then
\* the bus client is disconnected and the publisher stopped, and from then on
\* nothing is polled or published.
C11_StopObservedAtTop ==
    /\ [][pc' = "stop" /\ pc # "stop" => pc = "top" /\ ~run_status]_vars
    /\ [][pc = "top" /\ ~run_status =>
            pc' = "stop" /\ UNCHANGED <<readVars, polled, iter_polls, iters>>]_vars
    /\ [][~run_status /\ pc \in InIteration => StepRuns]_vars
    /\ [][pc = "stop" => pc' = "stopped" /\ ~connected' /\ ~mqtt_running']_vars
    /\ [][(pc \in {"stop", "stopped"}) =>
            UNCHANGED <<readVars, polled, iter_polls, published_any>>]_vars
    /\ [](pc \in InIteration => connected /\ mqtt_running)
    /\ [](pc = "stopped" => ~connected /\ ~mqtt_running /\ ~run_status)

\* the signal arrived while group base was about to be polled; the iteration
\* polled base, the secondary group, day, total and config all the same and
\* published, then run stopped
C11_Witness ==
    /\ pc = "stopped"
    /\ signal_at = "base"
    /\ iters = 1
    /\ iter_polls = <<BaseGroup, SecondaryGroups[0], "day", "total", "config">>
    /\ published # <<>>
    /\ ~connected
    /\ ~mqtt_running

\* C12: once in the main loop and while the stop flag is not set, run never
\* reaches a terminal state: whatever cluster reads, decodings and derived
\* computations failed, every step of the loop leads to the next position of
\* the loop, the loop is left only with the flag cleared,
\* and every iteration polls group base and the secondary group at the
\* rotation index.
C12_NoTerminalError ==
    /\ [](pc \in {"stop", "stopped"} => ~run_status)
    /\ [][run_status /\ run_status' /\ pc \in InIteration => pc' = Successor(pc)]_vars
    /\ [][run_status /\ pc = "top" => pc' \in {"top", "base"}]_vars
    /\ [](pc \in AfterRotation =>
            /\ iter_polls[1] = BaseGroup
            /\ iter_polls[2] = SecondaryGroups[iters % 5])

\* every kind of failure has happened: the base poll of the previous iterations
\* failed on a cluster read, now-backup on a register it cannot decode, day on
\* its read; the fourth iteration has polled base and now-battery again
C12_Witness ==
    /\ pc = "day"
    /\ run_status
    /\ iters = 3
    /\ ~published_any
    /\ "day" \in prev_failed
    /\ iter_polls = <<BaseGroup, SecondaryGroups[3]>>

\* the cluster reads of the last poll that failed
FailedReads == bus.fail \cap (1..Len(PlanOf(register_map, group)))

\* C13: if a cluster read fails during the poll of a group, read_mtec_data
\* returns an empty snapshot and nothing of that group is published in that
\* cycle.
C13_FailedClusterEmptiesPoll ==
    pc \in InIteration /\ group # "" /\ FailedReads # {}
        => pvdata = <<>> /\ published = <<>>

-----------------------------------------------------------------------------
(* Specification SpecDecode: one call of read_modbus_data on a group of     *)
(* two clusters, over the wire types, lengths and scales of the catalog     *)

MaxItems == 3       \* registers of the first cluster

DecodeScales == {1, 10}
DecodeFirst == 100  \* address of the first register of the first cluster
DecodeLast == 120   \* address of the register of the second cluster

\* the kinds of register: wire type, length in words, scale
Kind(type, length, scale) == [type |-> type, length |-> length, scale |-> scale]
Kinds ==
    { Kind(t, 1, sc) : t \in {"U16", "BYTE", "BIT", "STR"}, sc \in DecodeScales }
    \cup { Kind("DAT", 3, sc) : sc \in DecodeScales }
    \cup { Kind("U32", n, 1) : n \in {1, 2} }
    \cup { Kind("I16", 1, 1), Kind("XX", 1, 1) }

\* the registers of the kinds ks at consecutive addresses from a on
RECURSIVE KindRegs(_, _)
KindRegs(ks, a) ==
    IF ks = <<>> THEN <<>>
    ELSE << Entry(Str(a), "reg", ks[1].length, ks[1].type, "", ks[1].scale, FALSE,
                  "reg", "decode") >>
         \o KindRegs(Tail(ks), a + ks[1].length)

DecodeCatalogs ==
    { KindRegs(ks, DecodeFirst)
        \o << Entry(Str(DecodeLast), "last", 1, "U16", "", 1, FALSE, "last", "decode") >> :
      ks \in UNION { [1..n -> Kinds] : n \in 1..MaxItems } }

\* the device: small words counting up from the first address, or (for a
\* catalog without 32-bit registers) large words counting down
DecodeAddrs == DecodeFirst..DecodeLast
DecodeBuses(map) ==
    { Bus([a \in DecodeAddrs |-> a - DecodeFirst + 1], {}, {}) }
    \cup IF \E i \in 1..Len(map) : map[i].type = "U32" THEN {}
         ELSE { Bus([a \in DecodeAddrs |-> WordSize - (a - DecodeFirst + 1)], {}, {}) }

InitDecode ==
    /\ register_map \in DecodeCatalogs
    /\ group = "decode"
    /\ bus \in DecodeBuses(register_map)
    /\ clock = 0
    /\ data = EmptyMap
    /\ pvdata = <<>>
    /\ published = <<>>
    /\ pc = "decode_call"
    /\ registers = <<>>
    /\ todo = <<>>
    /\ cluster = EmptyCluster
    /\ cluster_list = <<>>
    /\ CacheIdle
    /\ LoadIdle
    /\ RunIdle
    /\ WriteIdle
    /\ IterIdle

\* read_modbus_data(registers=get_register_list(group))
DecodeCall ==
    /\ pc = "decode_call"
    /\ LET regs == GetRegisterList(register_map, group)
       IN  /\ cluster_cache' = CacheAfter(cluster_cache, register_map, regs)
           /\ data' = ReadModbusData(register_map, cluster_cache, regs, bus)
    /\ pc' = "decode_done"
    /\ UNCHANGED <<register_map, planVars, requested, created, ncalls, loadVars,
                   group, bus, clock, pvdata, published, runVars, histVars, writeVars, iterVars>>

NextDecode == DecodeCall

SpecDecode == InitDecode /\ [][NextDecode]_vars

-----------------------------------------------------------------------------
(* The decoder claims                                                       *)

NumericTypes == {"U16", "I16", "U32", "I32"}
StringTypes == {"BYTE", "BIT", "DAT", "STR"}

\* the word the device holds at address a
WordAt(a) == MemAt(bus.mem, a)

\* the last address of the cluster that holds address a
ClusterEnd(a) ==
    IF a = DecodeLast THEN DecodeLast
    ELSE ToInt(register_map[Len(register_map) - 1].id)
         + register_map[Len(register_map) - 1].length - 1

\* words the wire type of item reads
WordsRead(item) ==
    CASE item.type \in {"U32", "I32"} -> 2
      [] item.type = "DAT" -> 3
      [] OTHER -> 1

\* the decoding of item fails: unknown type, or too few words left
DecodeFails(item) ==
    \/ item.type \notin NumericTypes \cup StringTypes
    \/ ToInt(item.id) + WordsRead(item) - 1 > ClusterEnd(ToInt(item.id))

\* the number a numeric item stands for, from the words at its own address
RawNumber(item) ==
    CASE item.type = "U16" -> WordAt(ToInt(item.id))
      [] item.type = "I16" ->
             IF WordAt(ToInt(item.id)) >= WordSize \div 2
             THEN WordAt(ToInt(item.id)) - WordSize ELSE WordAt(ToInt(item.id))
      [] OTHER -> WordAt(ToInt(item.id)) * WordSize + WordAt(ToInt(item.id) + 1)

\* the value of a numeric item after scaling
ScaledNumber(item) ==
    IF RawNumber(item) # 0 /\ item.scale > 1
    THEN FloatV(RawNumber(item), item.scale) ELSE IntV(RawNumber(item))

\* the words of the device at the addresses of item
OwnWords(item) ==
    [k \in 1..WordsRead(item) |-> WordAt(ToInt(item.id) + k - 1)]

\* C14: when the decoding of one register fails (unknown type, too few
\* words), that register alone is absent from the result of read_modbus_data;
\* every other register of the cluster and of the later cluster is decoded
\* from the words at its own address and present.
C14_DecodeFailureIsLocal ==
    pc = "decode_done" =>
        \A i \in 1..Len(register_map) :
            LET item == register_map[i] IN
            /\ DecodeFails(item) => item.id \notin DOMAIN data
            /\ ~DecodeFails(item) /\ item.type \in NumericTypes =>
                   /\ item.id \in DOMAIN data
                   /\ data[item.id].value = ScaledNumber(item)
            /\ ~DecodeFails(item) /\ item.type \in StringTypes /\ item.scale = 1
                 /\ (item.type = "STR" => WordAt(ToInt(item.id)) < 128) =>
                   /\ item.id \in DOMAIN data
                   /\ data[item.id].value =
                          DecodeVal(ToBytes(OwnWords(item)), item.type, item.length)

\* the first register has an unknown type and the third (a 32-bit register
\* of one word at the end of the cluster) too few words; the register
\* between them and the register of the second cluster are in the result,
\* each with the word at its own address
C14_Witness ==
    /\ pc = "decode_done"
    /\ Len(register_map) = 4
    /\ register_map[1].type = "XX"
    /\ register_map[2].type = "I16"
    /\ register_map[3].type = "U32"
    /\ register_map[3].length = 1
    /\ DOMAIN data = {Str(DecodeFirst + 1), Str(DecodeLast)}
    /\ data[Str(DecodeFirst + 1)].value = IntV(2)
    /\ data[Str(DecodeLast)].value = IntV(DecodeLast - DecodeFirst + 1)

\* the formatted string of a string-typed item, from the words at its address
OwnString(item) == DecodeVal(ToBytes(OwnWords(item)), item.type, item.length)

\* C15: scaling applies to numeric wire types only: a BYTE, BIT, DAT or STR
\* entry decodes to the same formatted string whether its scale is 1 or
\* greater than 1.
C15_StringTypesIgnoreScale ==
    pc = "decode_done" =>
        \A i \in 1..Len(register_map) :
            LET item == register_map[i] IN
            item.type \in StringTypes /\ OwnString(item).ty = "str" =>
                /\ item.id \in DOMAIN data
                /\ data[item.id].value = OwnString(item)

-----------------------------------------------------------------------------
(* MTECModbusClient.write_register *)

DotCode == 46
MinusCode == 45

\* the value of a digit string, 0 for the empty one
DigitsVal(ds) == IF ds = <<>> THEN 0 ELSE ToInt(ds)

\* a string without its leading minus sign, and the sign
Unsigned(str) == IF str # <<>> /\ str[1] = MinusCode THEN Tail(str) ELSE str
SignOf(str) == IF str # <<>> /\ str[1] = MinusCode THEN -1 ELSE 1

\* int(str): an optional sign and at least one digit
ParseInt(str) ==
    IF IsNumeric(Unsigned(str)) THEN IntV(SignOf(str) * ToInt(Unsigned(str))) ELSE Exc

\* float(str) for a string with a decimal point: an optional sign, digits
\* around exactly one point, at least one digit
ParseFloat(str) ==
    LET body == Unsigned(str)
        dots == { i \in 1..Len(body) : body[i] = DotCode }
    IN  IF Cardinality(dots) # 1 THEN Exc
        ELSE LET k == CHOOSE i \in dots : TRUE
                 ip == SubSeq(body, 1, k - 1)
                 fp == SubSeq(body, k + 1, Len(body))
             IN  IF Len(body) = 1 THEN Exc
                 ELSE IF \E i \in 1..Len(ip) : ip[i] < Digit0 \/ ip[i] > Digit9 THEN Exc
                 ELSE IF \E i \in 1..Len(fp) : fp[i] < Digit0 \/ fp[i] > Digit9 THEN Exc
                 ELSE FloatV(SignOf(str) * DigitsVal(ip \o fp), Pow(10, Len(fp)))

\* lines 131-136: a string parsed as float if it has a point, else as int;
\* any other value is left as it is
ParseValue(value) ==
    IF value.ty = "str"
    THEN IF \E i \in 1..Len(value.s) : value.s[i] = DotCode
         THEN ParseFloat(value.s) ELSE ParseInt(value.s)
    ELSE value

\* int(value): truncation towards zero; TypeError for None
Trunc(value) ==
    IF ~IsNum(value) THEN Exc
    ELSE IF value.n < 0 THEN IntV(0 - ((0 - value.n) \div value.d))
    ELSE IntV(value.n \div value.d)

\* int(register)
RegisterAddress(register) == IF IsNumeric(register) THEN IntV(ToInt(register)) ELSE Exc

\* what write_register returns or raises, and the writes it hands to the
\* transport
WriteDone(result, writes) == [result |-> result, writes |-> writes]

\* the writable flag ignored
NotWritableIgnored(item) == FALSE

\* line 126: item.get(WRITABLE, False) is False
NotWritable(item) == item.writable = FALSE

\* write_register(register, value) with a transport that answers by outcome
WriteRegister(map, register, value, outcome) ==
    IF ~Known(map, register) THEN WriteDone("false", <<>>)
    ELSE IF NotWritable(Lookup(map, register)) THEN WriteDone("false", <<>>)
    ELSE IF ParseValue(value).ty = "exc" THEN WriteDone("false", <<>>)
    ELSE LET item == Lookup(map, register)
             parsed == ParseValue(value)
             scaled == IF item.scale > 1 THEN Mul(parsed, IntV(item.scale)) ELSE parsed
             address == RegisterAddress(register)
             word == Trunc(scaled)
         IN  IF scaled.ty = "exc" THEN WriteDone("raise", <<>>)
             ELSE IF address.ty = "exc" \/ word.ty = "exc" THEN WriteDone("false", <<>>)
             ELSE WriteDone(IF outcome = "ok" THEN "true" ELSE "false",
                            << [address |-> address.n, value |-> word.n] >>)

-----------------------------------------------------------------------------
(* Specification SpecWrite: one call of write_register                      *)

MaxInput == 3       \* longest input string

\* the characters of an input string: 1, 5, the point, the minus sign, x
InputChars == {49, 53, DotCode, MinusCode, 120}

WriteInputs ==
    { StrV(str) : str \in UNION { [1..n -> InputChars] : n \in 0..MaxInput } }
    \cup { IntV(7), FloatV(5, 2), NoneV }

\* register 9 writable, register 10 read-only, the pseudo-register
\* consumption writable; register 11 is not in the catalog
WriteCatalogs ==
    { << Entry(Str(9), "limit", 1, "U16", "", sc, TRUE, NoneStr, NoneStr),
         Entry(Str(10), "power", 1, "U16", "", sc, FALSE, NoneStr, NoneStr),
         Entry(Consumption, "Consumption", NoneLen, NoneStr, "", 1, TRUE, NoneStr, NoneStr) >> :
      sc \in {1, 10} }

WriteIds == {Str(9), Str(10), Str(11), Consumption}

InitWrite ==
    /\ register_map \in WriteCatalogs
    /\ w_register \in WriteIds
    /\ w_value \in WriteInputs
    /\ w_outcome \in {"ok", "error", "exception"}
    /\ w_writes = <<>>
    /\ w_result = ""
    /\ pc = "write_call"
    /\ registers = <<>>
    /\ todo = <<>>
    /\ cluster = EmptyCluster
    /\ cluster_list = <<>>
    /\ CacheIdle
    /\ LoadIdle
    /\ ReadIdle
    /\ RunIdle
    /\ IterIdle

\* write_register(register=w_register, value=w_value)
WriteCall ==
    /\ pc = "write_call"
    /\ w_result' = WriteRegister(register_map, w_register, w_value, w_outcome).result
    /\ w_writes' = w_writes
                   \o WriteRegister(register_map, w_register, w_value, w_outcome).writes
    /\ pc' = "write_done"
    /\ UNCHANGED <<register_map, planVars, cacheVars, loadVars, readVars, runVars,
                   histVars, w_register, w_value, w_outcome, iterVars>>

NextWrite == WriteCall

SpecWrite == InitWrite /\ [][NextWrite]_vars

\* the input is a string that is not a number
Unparsable == w_value.ty = "str" /\ ParseValue(w_value).ty = "exc"

\* C16: write_register returns failure and issues no transport write when the
\* id is unknown, when the entry is not writable, or when a string input
\* cannot be parsed as a number; it issues at most one transport write, and
\* it returns success only if that write was issued and reported no error.
C16_WriteContract ==
    pc = "write_done" =>
        /\ ~Known(register_map, w_register) => w_result = "false" /\ w_writes = <<>>
        /\ Known(register_map, w_register)
             /\ ~Lookup(register_map, w_register).writable
             => w_result = "false" /\ w_writes = <<>>
        /\ Unparsable => w_result = "false" /\ w_writes = <<>>
        /\ Len(w_writes) <= 1
        /\ w_result = "true" => Len(w_writes) = 1 /\ w_outcome = "ok"

\* the string 1.5 written to the writable register 9 of scale 10: one write
\* of 15 to address 9, reported without error
C16_Witness ==
    /\ pc = "write_done"
    /\ w_register = Str(9)
    /\ w_value = StrV(<<49, DotCode, 53>>)
    /\ Lookup(register_map, w_register).scale = 10
    /\ w_writes = << [address |-> 9, value |-> 15] >>
    /\ w_result = "true"

-----------------------------------------------------------------------------
(* The snapshot claims                                                      *)

NegativeFloat(v) == v.ty = "float" /\ v.n < 0

\* the value the formula of the pseudo-register at catalog index i yields on
\* the decoded map of the poll, before the clamp
Derived(i) == Formula(register_map[i].id, data, pvdata, clock)

\* the published pseudo-registers of the polled group that the snapshot holds
InSnapshot == { i \in PublishedPseudo : PvHas(pvdata, register_map[i].mqtt) }

\* C17: a derived value that is a floating-point number and would be negative
\* is stored in the snapshot, and so published, as exactly 0; no negative
\* float derived value is in a snapshot or in a published message.
C17_NegativeFloatClamped ==
    /\ pc \in {"read_done", "read_published"} =>
           \A i \in InSnapshot :
               /\ NegativeFloat(Derived(i)) =>
                      PvGet(pvdata, register_map[i].mqtt).value = IntV(0)
               /\ ~NegativeFloat(PvGet(pvdata, register_map[i].mqtt).value)
    /\ pc = "read_published" =>
           /\ Len(published) = Len(pvdata)
           /\ \A k \in 1..Len(published) :
                  /\ ~(pvdata[k].isdict) => ~NegativeFloat(published[k].payload.value)
                  /\ \A i \in InSnapshot :
                         register_map[i].mqtt = pvdata[k].key /\ NegativeFloat(Derived(i))
                         => published[k].payload = [kind |-> "str", value |-> StrV(Str(0))]

\* group base with scale 10: 11016 reads 0 and 11000 reads 0.1, the
\* consumption -0.1 is published as 0
C17_Witness ==
    /\ pc = "read_published"
    /\ group = "base"
    /\ Str(11016) \in DOMAIN data
    /\ Str(11000) \in DOMAIN data
    /\ data[Str(11016)].value = IntV(0)
    /\ data[Str(11000)].value = FloatV(1, 10)
    /\ PvHas(pvdata, "consumption")
    /\ PvGet(pvdata, "consumption").value = IntV(0)
    /\ \E k \in 1..Len(published) :
           /\ published[k].topic[3] = "consumption"
           /\ published[k].payload.value = StrV(Str(0))

-----------------------------------------------------------------------------
(* Specification SpecScenario: one poll of group base on the catalog of the *)
(* consumption scenario, published under MTEC/serial                        *)

ScenarioWords == {0, 1, 120, 500, WordSize - 1}

\* registers 11016 and 11000 (U16, one word, scale 1, group base, not
\* published) and the pseudo-register consumption published as consumption
ScenarioRegs ==
    << Entry(Str(11016), "Inverter power", 1, "U16", "W", 1, FALSE, NoneStr, "base"),
       Entry(Str(11000), "Grid power", 1, "U16", "W", 1, FALSE, NoneStr, "base") >>
ScenarioPseudo ==
    << Entry(Consumption, "Consumption", NoneLen, NoneStr, "W", 1, FALSE,
             "consumption", "base") >>
ScenarioCatalogs == { ScenarioRegs \o ScenarioPseudo, ScenarioPseudo \o ScenarioRegs }

InitScenario ==
    /\ register_map \in ScenarioCatalogs
    /\ group = "base"
    /\ bus \in { Bus(mem, fail, {}) :
                   mem \in [ {11016, 11000} -> ScenarioWords ],
                   fail \in SUBSET {1, 2} }
    /\ clock = 0
    /\ data = EmptyMap
    /\ pvdata = <<>>
    /\ published = <<>>
    /\ pc = "read_call"
    /\ registers = <<>>
    /\ todo = <<>>
    /\ cluster = EmptyCluster
    /\ cluster_list = <<>>
    /\ CacheIdle
    /\ LoadIdle
    /\ RunIdle
    /\ WriteIdle
    /\ IterIdle

SpecScenario == InitScenario /\ [][NextRead]_vars

\* the words the device holds at 11016 and at 11000
V16 == bus.mem[11016]
V00 == bus.mem[11000]

\* C18: on the scenario catalog, for all bus values v16 >= v00 (every read
\* answered), one poll of group base yields the snapshot
\* {consumption: v16 - v00} and exactly one publish, on the topic
\* topicBase/serial/base/consumption.
C18_ConsumptionScenario ==
    bus.fail = {} /\ V16 >= V00 =>
        /\ pc \in {"read_done", "read_published"} =>
               pvdata = << PvScalar("consumption", IntV(V16 - V00)) >>
        /\ pc = "read_published" =>
               published =
                   << [topic |-> << <<"MTEC", "serial">>, "base", "consumption" >>,
                       payload |-> [kind |-> "str", value |-> StrV(Str(V16 - V00))]] >>

\* 500 at 11016 and 120 at 11000: the snapshot {consumption: 380}, published
\* once as 380
C18_Witness ==
    /\ pc = "read_published"
    /\ bus.fail = {}
    /\ V16 = 500
    /\ V00 = 120
    /\ pvdata = << PvScalar("consumption", IntV(380)) >>
    /\ Len(published) = 1
    /\ published[1].payload.value = StrV(<<51, 56, 48>>)

\* ---------------------------------------------------------------------------
\* One iteration of the main loop of run, transaction by transaction
\* (mtec_coordinator.py 98-139): every read_holding_registers call is a request
\* and its answer, every publish a step of its own.
\* ---------------------------------------------------------------------------

\* the phase after a request has gone out, were the call not waiting for the answer
AfterRequestNoWait == "read"

\* read_holding_registers returns with the answer: the caller waits for it
AfterRequest == "wait"

Event(kind, g) == [kind |-> kind, group |-> g]

\* the group polled at position p of the iteration, "" when none is due
PollGroup(p) ==
    CASE p = "base" -> BaseGroup
      [] p = "secondary" /\ now_ext_idx \in DOMAIN SecondaryGroups ->
             SecondaryGroups[now_ext_idx]
      [] p = "day" /\ next_read_day <= now -> "day"
      [] p = "total" /\ next_read_total <= now -> "total"
      [] p = "config" /\ next_read_config <= now -> "config"
      [] OTHER -> ""

\* the position that follows p in the body of the loop
NextPosition(p) ==
    CASE p = "base" -> "secondary"
      [] p = "secondary" -> "day"
      [] p = "day" -> "total"
      [] p = "total" -> "config"
      [] OTHER -> "sleep"

\* the device during a poll of g with the answers so far: clusters from
\* number k on have not been read
BusSoFar(map, g, fail, k) ==
    Bus([a \in {PlanOf(map, g)[1].start} |-> 1],
        fail \cup (k..Len(PlanOf(map, g))), {})

\* the state at "now = datetime.now()" of an iteration: the rotation index
\* anywhere, each long interval due or not
InitIteration ==
    /\ register_map = RunCatalog
    /\ pc = "base"
    /\ run_status = TRUE
    /\ mqtt_running = TRUE
    /\ connected = TRUE
    /\ clock = 0
    /\ refresh = [now |-> 1, day |-> 1, total |-> 2, config |-> 3]
    /\ now = 0
    /\ now_ext_idx \in DOMAIN SecondaryGroups
    /\ next_read_config \in {0, 1}
    /\ next_read_day \in {0, 1}
    /\ next_read_total \in {0, 1}
    /\ topic_base = <<"MTEC", "serial">>
    /\ group = ""
    /\ bus = [mem |-> EmptyMap, fail |-> {}, short |-> {}]
    /\ data = EmptyMap
    /\ pvdata = <<>>
    /\ published = <<>>
    /\ iter_polls = <<>>
    /\ iter_failed = {}
    /\ prev_failed = {}
    /\ sec_hist = <<>>
    /\ polled = {}
    /\ config_ok = TRUE
    /\ published_any = FALSE
    /\ iters = 0
    /\ retries = 0
    /\ signal_at = ""
    /\ registers = <<>>
    /\ todo = <<>>
    /\ cluster = EmptyCluster
    /\ cluster_list = <<>>
    /\ CacheIdle
    /\ LoadIdle
    /\ WriteIdle
    /\ it_phase = "begin"
    /\ it_k = 0
    /\ it_events = <<>>

\* the body of the loop reaches a poll: read_mtec_data(group) is called when the
\* group is due, data = {} and the clusters are planned
IterBegin ==
    /\ pc \in InIteration \ {"sleep"}
    /\ it_phase = "begin"
    /\ IF PollGroup(pc) # ""
       THEN /\ group' = PollGroup(pc)
            /\ bus' = BusSoFar(register_map, PollGroup(pc), {}, 1)
            /\ data' = EmptyMap
            /\ pvdata' = <<>>
            /\ published' = <<>>
            /\ cluster_cache' = CacheAfter(cluster_cache, register_map,
                                           GetRegisterList(register_map, PollGroup(pc)))
            /\ polled' = polled \cup {PollGroup(pc)}
            /\ iter_polls' = Append(iter_polls, PollGroup(pc))
            /\ it_k' = 1
            /\ it_phase' = "read"
       ELSE /\ it_phase' = "end"
            /\ UNCHANGED <<group, bus, data, pvdata, published, cluster_cache, polled,
                           iter_polls, it_k>>
    /\ UNCHANGED <<register_map, pc, planVars, requested, created, ncalls, loadVars,
                   clock, runVars, iter_failed, prev_failed, sec_hist, config_ok,
                   published_any, iters, retries, signal_at, writeVars, it_events>>

\* _read_registers: the request for cluster it_k goes out
IterRequest ==
    /\ it_phase = "read"
    /\ it_k <= Len(PlanOf(register_map, group))
    /\ it_events' = Append(it_events, Event("read_begin", group))
    /\ it_phase' = AfterRequest
    /\ UNCHANGED <<register_map, pc, planVars, cacheVars, loadVars, readVars, runVars,
                   histVars, writeVars, it_k>>

\* _read_registers: the answer to the request, good or not; the cluster is
\* decoded into data; after the last cluster read_mtec_data builds the snapshot
IterResponse ==
    /\ it_phase = "wait"
    /\ it_events' = Append(it_events, Event("read_end", group))
    /\ \E ok \in BOOLEAN :
        /\ bus' = BusSoFar(register_map, group,
                           (bus.fail \cap (1..(it_k - 1))) \cup
                               (IF ok THEN {} ELSE {it_k}),
                           it_k + 1)
        /\ data' = ReadModbusData(register_map, cluster_cache,
                                  GetRegisterList(register_map, group), bus')
    /\ IF it_k < Len(PlanOf(register_map, group))
       THEN /\ it_k' = it_k + 1
            /\ it_phase' = "read"
            /\ UNCHANGED <<pvdata, iter_failed>>
       ELSE /\ pvdata' = ReadMtecData(register_map, cluster_cache, group, bus', clock)
            /\ it_k' = 1
            /\ it_phase' = IF pvdata' # <<>> THEN "publish" ELSE "end"
            /\ iter_failed' = IF group \in LongGroups /\ pvdata' = <<>>
                              THEN iter_failed \cup {group} ELSE iter_failed
    /\ UNCHANGED <<register_map, pc, planVars, cacheVars, loadVars, group, clock,
                   published, runVars, iter_polls, prev_failed, sec_hist, polled,
                   config_ok, published_any, iters, retries, signal_at, writeVars>>

\* write_to_mqtt: one publish of the loop over pvdata.items()
IterPublish ==
    /\ it_phase = "publish"
    /\ it_k <= Len(WriteToMqtt(pvdata, topic_base, group))
    /\ published' = Append(published, WriteToMqtt(pvdata, topic_base, group)[it_k])
    /\ published_any' = TRUE
    /\ it_events' = Append(it_events, Event("publish", group))
    /\ IF it_k < Len(WriteToMqtt(pvdata, topic_base, group))
       THEN /\ it_k' = it_k + 1
            /\ UNCHANGED it_phase
       ELSE /\ it_k' = 0
            /\ it_phase' = "end"
    /\ UNCHANGED <<register_map, pc, planVars, cacheVars, loadVars, group, bus, data,
                   pvdata, clock, runVars, iter_polls, iter_failed, prev_failed,
                   sec_hist, polled, config_ok, iters, retries, signal_at, writeVars>>

\* the statements after the poll of a position: the rotation index (111-114),
\* the due time of a long interval (119, 126, 135); then the next position
IterEnd ==
    /\ pc \in InIteration \ {"sleep"}
    /\ it_phase = "end"
    /\ now_ext_idx' = IF pc = "secondary" THEN Advance(now_ext_idx) ELSE now_ext_idx
    /\ next_read_day' = IF pc = "day" /\ PollGroup(pc) # ""
                        THEN NextDue(next_read_day, pvdata, clock + refresh.day)
                        ELSE next_read_day
    /\ next_read_total' = IF pc = "total" /\ PollGroup(pc) # ""
                          THEN NextDue(next_read_total, pvdata, clock + refresh.total)
                          ELSE next_read_total
    /\ next_read_config' = IF pc = "config" /\ PollGroup(pc) # ""
                           THEN NextDue(next_read_config, pvdata, clock + refresh.config)
                           ELSE next_read_config
    /\ pc' = NextPosition(pc)
    /\ it_phase' = IF NextPosition(pc) = "sleep" THEN "sleep" ELSE "begin"
    /\ it_k' = 0
    /\ UNCHANGED <<register_map, planVars, cacheVars, loadVars, readVars, run_status,
                   now, refresh, topic_base, connected, mqtt_running, histVars,
                   writeVars, it_events>>

\* lines 137-139: time.sleep(refresh_now_interval); the iteration is over
IterSleep ==
    /\ pc = "sleep"
    /\ it_phase = "sleep"
    /\ clock' = clock + refresh.now
    /\ iters' = iters + 1
    /\ pc' = "top"
    /\ it_phase' = "done"
    /\ UNCHANGED <<register_map, planVars, cacheVars, loadVars, group, bus, data,
                   pvdata, published, runVars, iter_polls, iter_failed, prev_failed,
                   sec_hist, polled, config_ok, published_any, retries, signal_at,
                   writeVars, it_k, it_events>>

NextIteration ==
    \/ IterBegin
    \/ IterRequest
    \/ IterResponse
    \/ IterPublish
    \/ IterEnd
    \/ IterSleep

SpecIteration == InitIteration /\ [][NextIteration]_vars

\* the place of a group in the sequence base, secondary, day, total, config
Place(g) ==
    CASE g = BaseGroup -> 1
      [] g = "day" -> 3
      [] g = "total" -> 4
      [] g = "config" -> 5
      [] OTHER -> 2

CountOf(kind) == Cardinality({ i \in DOMAIN it_events : it_events[i].kind = kind })

\* the bus transactions requested and not yet answered
InFlight == CountOf("read_begin") - CountOf("read_end")

\* the groups that have an event in the iteration
EventGroups == { it_events[i].group : i \in DOMAIN it_events }

\* C19: within one iteration the polls run in the sequence base, current
\* secondary group, day, total, config: the events of a group (its bus reads,
\* then its publishes) all come before the events of a group later in the
\* sequence, no read of a group follows one of its publishes, a publish happens
\* only while no transaction is in flight, and at most one bus transaction is in
\* flight at any time.
C19_PollsInSequence ==
    /\ InFlight \in {0, 1}
    /\ \A i, j \in DOMAIN it_events :
           i < j =>
               /\ Place(it_events[i].group) <= Place(it_events[j].group)
               /\ Place(it_events[i].group) = Place(it_events[j].group) =>
                      /\ it_events[i].group = it_events[j].group
                      /\ ~(it_events[i].kind = "publish" /\ it_events[j].kind # "publish")
               /\ it_events[i].kind = "read_begin" =>
                      it_events[i + 1].kind = "read_end"
    /\ \A i \in DOMAIN iter_polls :
           /\ i > 1 => Place(iter_polls[i - 1]) < Place(iter_polls[i])
    /\ it_phase \in {"sleep", "done"} =>
           /\ Len(iter_polls) >= 2
           /\ iter_polls[1] = BaseGroup
           /\ Place(iter_polls[2]) = 2

\* an iteration in which all five polls ran, each read its clusters and
\* published
C19_Witness ==
    /\ it_phase = "done"
    /\ Len(iter_polls) = 5
    /\ EventGroups = { iter_polls[i] : i \in DOMAIN iter_polls }
    /\ \A g \in EventGroups :
           \E i, j \in DOMAIN it_events :
               /\ it_events[i] = Event("read_end", g)
               /\ it_events[j] = Event("publish", g)

\* ---------------------------------------------------------------------------
\* Poll cycles of one group on a device whose words change between the cycles
\* (mtec_coordinator.py 101-103: if pvdata := read_mtec_data(group):
\* write_to_mqtt(pvdata, topic_base, group)).
\* ---------------------------------------------------------------------------

MaxCycles == 2

\* the words the device shows in a cycle
CycleWords == {1, 2}

\* the groups polled in cycles: base with its derived consumption, now-pv with
\* an unpublished register in a cluster of its own
CycleGroups == {BaseGroup, "now-pv"}

\* the addresses the plan of group g reads
PlanAddrs(map, g) ==
    UNION { PlanOf(map, g)[k].start ..
                (PlanOf(map, g)[k].start + PlanOf(map, g)[k].length - 1) :
            k \in DOMAIN PlanOf(map, g) }

\* what the device may show during one cycle: any words, every cluster read
\* answered, or the first not, or the last not
CycleBuses(map, g) ==
    { Bus(mem, fail, {}) :
        mem \in [PlanAddrs(map, g) -> CycleWords],
        fail \in {{}, {1}, {Len(PlanOf(map, g))}} }

InitCycles ==
    /\ register_map = RunCatalog
    /\ group \in CycleGroups
    /\ bus = [mem |-> EmptyMap, fail |-> {}, short |-> {}]
    /\ clock = 0
    /\ data = EmptyMap
    /\ pvdata = <<>>
    /\ published = <<>>
    /\ pc = "cycle"
    /\ registers = <<>>
    /\ todo = <<>>
    /\ cluster = EmptyCluster
    /\ cluster_list = <<>>
    /\ CacheIdle
    /\ LoadIdle
    /\ RunIdle
    /\ WriteIdle
    /\ IterIdle

\* read_mtec_data(group) of a cycle
CycleRead ==
    /\ pc = "cycle"
    /\ Len(it_events) < MaxCycles
    /\ \E dev \in CycleBuses(register_map, group) :
        /\ bus' = dev
        /\ cluster_cache' = CacheAfter(cluster_cache, register_map,
                                       GetRegisterList(register_map, group))
        /\ data' = ReadModbusData(register_map, cluster_cache,
                                  GetRegisterList(register_map, group), dev)
        /\ pvdata' = ReadMtecData(register_map, cluster_cache, group, dev, clock)
    /\ pc' = "cycle_read"
    /\ UNCHANGED <<register_map, planVars, requested, created, ncalls, loadVars,
                   group, clock, published, runVars, histVars, writeVars, iterVars>>

\* if pvdata: write_to_mqtt(pvdata, topic_base, group); the cycle is over and
\* time passes until the next
CycleWrite ==
    /\ pc = "cycle_read"
    /\ published' = IF pvdata # <<>>
                    THEN WriteToMqtt(pvdata, <<"MTEC", "serial">>, group)
                    ELSE <<>>
    /\ it_events' = Append(it_events, [kind |-> "cycle", group |-> group, at |-> clock,
                                       bus |-> bus, published |-> published'])
    /\ clock' = clock + 1
    /\ pc' = "cycle"
    /\ UNCHANGED <<register_map, planVars, cacheVars, loadVars, group, bus,
                   data, pvdata, runVars, histVars, writeVars, it_phase, it_k>>

NextCycles == CycleRead \/ CycleWrite

SpecCycles == InitCycles /\ [][NextCycles]_vars

\* the read of address a was answered by the device dev
Answered(dev, a) ==
    \E k \in DOMAIN PlanOf(register_map, group) :
        /\ k \notin dev.fail
        /\ PlanOf(register_map, group)[k].start <= a
        /\ a < PlanOf(register_map, group)[k].start + PlanOf(register_map, group)[k].length

\* the payload of a register holding the word n: the value as it is
PayloadOfWord(n) == [kind |-> "raw", value |-> IntV(n)]

\* the payload of a derived integer n: str(n)
PayloadOfInt(n) == [kind |-> "str", value |-> StrV(IntStr(n))]

\* the message msg carries what the device dev showed: the word at the address
\* of its register, or the difference of the two words consumption is derived from
FromDevice(msg, dev) ==
    LET key == msg.topic[3]
    IN  CASE key = "grid" ->
               Answered(dev, 11000) /\ msg.payload = PayloadOfWord(dev.mem[11000])
          [] key = "inverter" ->
               Answered(dev, 11016) /\ msg.payload = PayloadOfWord(dev.mem[11016])
          [] key = "consumption" ->
               /\ Answered(dev, 11000)
               /\ Answered(dev, 11016)
               /\ msg.payload = PayloadOfInt(dev.mem[11016] - dev.mem[11000])
          [] key = "pv_a" ->
               Answered(dev, 11038) /\ msg.payload = PayloadOfWord(dev.mem[11038])
          [] OTHER -> FALSE

\* the message msg is made in the cycle c: from the device of that cycle, or,
\* for api_date, from the time of that cycle
FromCycle(msg, c) ==
    IF msg.topic[3] = "api_date"
    THEN msg.payload = PayloadOfInt(c.at)
    ELSE FromDevice(msg, c.bus)

\* C20 (as stated): every value published for a group in a poll cycle was read
\* from the bus, or derived from values read, in that same cycle: each message
\* of a cycle carries the word the device showed in that cycle at an address
\* whose read was answered in that cycle.
C20_NoRetainedHistory ==
    \A c \in DOMAIN it_events :
        it_events[c].kind = "cycle" =>
            \A m \in DOMAIN it_events[c].published :
                FromDevice(it_events[c].published[m], it_events[c].bus)

\* C20 (amended): every value published for a group in a poll cycle was made in
\* that same cycle: read from the bus or derived from values read in that cycle,
\* or, for api_date, taken from the clock in that cycle; after a failed read
\* nothing decoded in an earlier cycle is published.
C20_FreshEachCycle ==
    \A c \in DOMAIN it_events :
        it_events[c].kind = "cycle" =>
            \A m \in DOMAIN it_events[c].published :
                FromCycle(it_events[c].published[m], it_events[c])

\* a first cycle that published what it read and its time, then a cycle on
\* changed words whose first read failed: nothing is published in it
C20_Witness ==
    /\ pc = "cycle"
    /\ Len(it_events) >= 2
    /\ group = BaseGroup
    /\ it_events[1].bus.fail = {}
    /\ it_events[1].bus.mem[11000] = 1
    /\ \E m \in DOMAIN it_events[1].published :
           /\ it_events[1].published[m].topic[3] = "grid"
           /\ it_events[1].published[m].payload = PayloadOfWord(1)
    /\ \E m \in DOMAIN it_events[1].published :
           it_events[1].published[m].topic[3] = "api_date"
    /\ it_events[2].bus.fail = {1}
    /\ it_events[2].bus.mem[11000] = 2
    /\ it_events[2].published = <<>>

\* ---------------------------------------------------------------------------
\* _decode_rawdata on a 32-bit register: a value laid out on the device as two
\* words, high word first, and read back (modbus_client.py 223-266).
\* ---------------------------------------------------------------------------

\* the 32-bit values laid out: high words up to the largest the checker's
\* integers hold, low words over the whole range
RoundTripHigh == {0, 1, 255, 256, 32767}
RoundTripLow == {0, 1, 1234, 32768, 65535}
RoundTripValues == { h * WordSize + l : h \in RoundTripHigh, l \in RoundTripLow }
RoundTripScales == {1, 10, 100}

\* the two words of v on the device at address a, high word first
Encode(v, a) == (a :> (v \div WordSize)) @@ ((a + 1) :> (v % WordSize))

\* a catalog of one U32 register of the given scale
RoundTripCatalog(sc) ==
    << Entry(Str(DecodeFirst), "reg", 2, "U32", "", sc, FALSE, "reg", "decode") >>

InitRoundTrip ==
    /\ register_map \in { RoundTripCatalog(sc) : sc \in RoundTripScales }
    /\ group = "decode"
    /\ bus \in { Bus(Encode(v, DecodeFirst), {}, {}) : v \in RoundTripValues }
    /\ clock = 0
    /\ data = EmptyMap
    /\ pvdata = <<>>
    /\ published = <<>>
    /\ pc = "decode_call"
    /\ registers = <<>>
    /\ todo = <<>>
    /\ cluster = EmptyCluster
    /\ cluster_list = <<>>
    /\ CacheIdle
    /\ LoadIdle
    /\ RunIdle
    /\ WriteIdle
    /\ IterIdle

SpecRoundTrip == InitRoundTrip /\ [][NextDecode]_vars

\* the numbers a and b are equal (3 and 3.0 are)
NumEq(a, b) == IsNum(a) /\ IsNum(b) /\ a.n = b.n /\ a.d = b.d

NotPositive(v) == IsNum(v) /\ v.n <= 0

\* the snapshot has the derived value key and it is the integer 0
IsZeroIn(pv, key) == PvHas(pv, key) /\ PvGet(pv, key).value = IntV(0)

\* the catalog lists the pseudo-registers of the polled group with the
\* consumption before the autarky and none unknown, every register is of a
\* known type, and every read of the poll was answered in full
PlainPoll ==
    /\ bus.fail = {}
    /\ bus.short = {}
    /\ \E pub \in BOOLEAN, sc \in {1, 10}, v \in {1, 3} :
           \/ group = "day" /\ register_map = BaseRegs(TRUE, 1) \o DayRegs(pub, sc, TRUE, v)
           \/ group = "total"
                /\ register_map = BaseRegs(TRUE, 1) \o TotalRegs(pub, sc, TRUE, v)

\* C22: autarky-day is 0 whenever consumption-day <= 0 and ownconsumption-day
\* is 0 whenever value(31005) <= 0, likewise autarky-total and
\* ownconsumption-total with consumption-total and value(31112); a zero
\* denominator does not make the poll fail: a poll whose reads were all
\* answered on a well-formed catalog yields a snapshot whatever the words.
C22_ZeroDenominatorGivesZero ==
    pc \in {"read_done", "read_published"} =>
        /\ PvHas(pvdata, "autarky_day") /\ PvHas(pvdata, "consumption_day")
             /\ NotPositive(PvGet(pvdata, "consumption_day").value)
               => IsZeroIn(pvdata, "autarky_day")
        /\ PvHas(pvdata, "autarky_total") /\ PvHas(pvdata, "consumption_total")
             /\ NotPositive(PvGet(pvdata, "consumption_total").value)
               => IsZeroIn(pvdata, "autarky_total")
        /\ PlainPoll /\ group = "day" /\ NotPositive(data[Str(31005)].value)
               => IsZeroIn(pvdata, "ownconsumption_day")
        /\ PlainPoll /\ group = "total" /\ NotPositive(data[Str(31112)].value)
               => IsZeroIn(pvdata, "ownconsumption_total")
        /\ PlainPoll => pvdata # <<>>

\* group day with value(31005) = 0 and value(31000) = 1: consumption-day is
\* -1, and both ratios are 0 in the snapshot
C22_Witness ==
    /\ pc = "read_done"
    /\ group = "day"
    /\ PlainPoll
    /\ data[Str(31005)].value = IntV(0)
    /\ data[Str(31000)].value = IntV(1)
    /\ PvHas(pvdata, "consumption_day")
    /\ PvGet(pvdata, "consumption_day").value = IntV(-1)
    /\ IsZeroIn(pvdata, "autarky_day")
    /\ IsZeroIn(pvdata, "ownconsumption_day")

\* the decoded values of the two registers consumption is derived from
D16 == data[Str(11016)].value
D00 == data[Str(11000)].value

\* the message published under the key
MessageOf(key) ==
    published[CHOOSE m \in DOMAIN published : published[m].topic[3] = key]

\* C23: the negative clamp is conditioned on the type: when the two unscaled
\* integer values give value(11016) < value(11000), the derived consumption
\* is that negative integer in the snapshot, and it is published as that
\* negative integer.
C23_NegativeIntegerUnclamped ==
    pc \in {"read_done", "read_published"} /\ group = "base" /\ pvdata # <<>>
      /\ D16.ty = "int" /\ D00.ty = "int" /\ D16.n < D00.n =>
        /\ PvHas(pvdata, "consumption")
        /\ PvGet(pvdata, "consumption").value = IntV(D16.n - D00.n)
        /\ PvGet(pvdata, "consumption").value.n < 0
        /\ pc = "read_published" =>
               MessageOf("consumption").payload =
                   [kind |-> "str", value |-> StrV(Dash \o Str(D00.n - D16.n))]

\* value(11016) = 0 and value(11000) = 1 on unscaled registers: consumption
\* is -1 in the snapshot and published as -1
C23_Witness ==
    /\ pc = "read_published"
    /\ group = "base"
    /\ D16 = IntV(0)
    /\ D00 = IntV(1)
    /\ PvGet(pvdata, "consumption").value = IntV(-1)
    /\ MessageOf("consumption").payload = [kind |-> "str", value |-> StrV(<<45, 49>>)]

\* ---------------------------------------------------------------------------
\* Claims about the life of the cluster-plan cache (modbus_client.py 155-161)
\* ---------------------------------------------------------------------------

\* what a call of _get_register_clusters does to the cache
CacheStep ==
    /\ \A k \in DOMAIN cluster_cache :
           k \in DOMAIN cluster_cache' /\ cluster_cache'[k] = cluster_cache[k]
    /\ CacheKey(registers') \in DOMAIN cluster_cache =>
           /\ created' = created
           /\ cluster_cache' = cluster_cache
           /\ cluster_list' = cluster_cache[CacheKey(registers')]
    /\ \A k \in DOMAIN cluster_cache' :
           cluster_cache'[k] = CreateRegisterClusters(register_map, k)
    /\ cluster_list' = CreateRegisterClusters(register_map, registers')

\* C24: the cluster-plan cache is append-only: no call removes or replaces an
\* entry; a call with a register list already planned returns the stored plan
\* and computes nothing; every stored plan equals what a fresh computation
\* returns.
C24_CacheAppendOnly ==
    [][CacheStep]_vars

\* two calls with the same list of two registers: one entry, one computation,
\* the stored plan returned
C24_Witness ==
    /\ ncalls = 2
    /\ created = 1
    /\ Cardinality(DOMAIN cluster_cache) = 1
    /\ registers = <<Str(9), Str(10)>>
    /\ cluster_list = cluster_cache[CacheKey(registers)]
    /\ cluster_list # <<>>

\* ---------------------------------------------------------------------------
\* Claims about the ids the planner skips (modbus_client.py 163-185)
\* ---------------------------------------------------------------------------

\* the request list with the non-numeric ids and the ids not in the catalog
\* removed
RECURSIVE KnownNumeric(_, _)
KnownNumeric(map, regs) ==
    IF regs = <<>> THEN <<>>
    ELSE (IF IsNumeric(regs[1]) /\ Known(map, regs[1]) THEN <<regs[1]>> ELSE <<>>)
         \o KnownNumeric(map, Tail(regs))

\* C25: ids that are not in the catalog and non-numeric ids do not affect
\* clustering: the plan of a request list is the plan of the list with those
\* ids removed; when no known numeric id is requested the plan is the empty
\* list, so that read_modbus_data, which issues one bus read per cluster,
\* issues none.
C25_SkippedIdsDoNotAffectPlan ==
    pc = "plan_done" =>
        /\ cluster_list =
               CreateRegisterClusters(register_map, KnownNumeric(register_map, registers))
        /\ KnownNumeric(register_map, registers) = <<>> => Len(cluster_list) = 0

\* the unknown id 11 and the pseudo-register consumption requested with 10:
\* the plan is the plan of 10 alone, one cluster
C25_Witness ==
    /\ pc = "plan_done"
    /\ registers = <<Str(11), Consumption, Str(10)>>
    /\ Len(cluster_list) = 1
    /\ cluster_list = CreateRegisterClusters(register_map, <<Str(10)>>)

\* ---------------------------------------------------------------------------
\* read_modbus_data(registers) on any request list (modbus_client.py 77-118):
\* the keys the decoded values are stored under.
\* ---------------------------------------------------------------------------

\* registers 9 (of any word count), 10 and 12, and the type-less entry 11
KeysCatalogs ==
    { << Entry(Str(9), "R9", l9, TypeForLen(l9), "", 1, FALSE, "r9", "base"),
         Entry(Str(10), "R10", 1, "U16", "", 1, FALSE, "r10", "base"),
         Entry(Str(11), "R11", 1, NoneStr, "", 1, FALSE, NoneStr, "base"),
         Entry(Str(12), "R12", 1, "U16", "", 1, FALSE, "r12", "base") >> :
      l9 \in 1..MaxLen }

KeysIds == {Str(9), Str(10), Str(11), Str(12)}

\* the device holds at every address the address itself; every read is
\* answered, in full or (one of the first two) with one word less or one more
KeysBuses ==
    { [mem |-> [a \in 9..(13 + MaxLen) |-> a], fail |-> {}, short |-> sl[1],
       long |-> sl[2]] :
      sl \in { <<{}, {}>>, <<{1}, {}>>, <<{}, {1}>>, <<{2}, {}>>, <<{}, {2}>> } }

InitKeys ==
    /\ register_map \in KeysCatalogs
    /\ registers \in ListsUpTo(KeysIds, MaxReq)
    /\ bus \in KeysBuses
    /\ group = ""
    /\ clock = 0
    /\ data = EmptyMap
    /\ pvdata = <<>>
    /\ published = <<>>
    /\ pc = "keys_call"
    /\ todo = <<>>
    /\ cluster = EmptyCluster
    /\ cluster_list = <<>>
    /\ CacheIdle
    /\ LoadIdle
    /\ RunIdle
    /\ WriteIdle
    /\ IterIdle

\* read_modbus_data(registers)
KeysCall ==
    /\ pc = "keys_call"
    /\ cluster_cache' = CacheAfter(cluster_cache, register_map, registers)
    /\ cluster_list' = CacheAfter(cluster_cache, register_map, registers)[CacheKey(registers)]
    /\ data' = ReadModbusData(register_map, cluster_cache, registers, bus)
    /\ pc' = "keys_done"
    /\ UNCHANGED <<register_map, registers, todo, cluster, requested, created, ncalls,
                   loadVars, group, bus, clock, pvdata, published, runVars, histVars,
                   writeVars, iterVars>>

SpecKeys == InitKeys /\ [][KeysCall]_vars

\* the words before the i-th item of a cluster
RECURSIVE OffsetOf(_, _)
OffsetOf(items, i) ==
    IF i <= 1 THEN 0 ELSE OffsetOf(items, i - 1) + items[i - 1].length

\* C26: every value in the result of read_modbus_data is stored under the id
\* of the catalog entry it was decoded from: in every cluster of the plan the
\* running key start + offset is the own address of each item, a type-less
\* entry advances the offset and is not in the result, and every key of the
\* result is a requested id whose value carries the name of its own entry.
C26_StoredUnderOwnId ==
    pc = "keys_done" /\ bus.short = {} /\ bus.long = {} =>
        /\ \A k \in DOMAIN cluster_list :
               \A i \in DOMAIN cluster_list[k].items :
                   cluster_list[k].start + OffsetOf(cluster_list[k].items, i)
                       = ToInt(cluster_list[k].items[i].id)
        /\ \A id \in DOMAIN data :
               /\ \E i \in DOMAIN registers : registers[i] = id
               /\ Known(register_map, id)
               /\ Lookup(register_map, id).type # NoneStr
               /\ data[id].name = Lookup(register_map, id).name

\* ---------------------------------------------------------------------------
\* The way to Stopped after the signal: run and stop under fair scheduling
\* (mtec_coordinator.py 82-98, 255-266).
\* ---------------------------------------------------------------------------

\* how a config read of the initial loop may fail: the read ends in an error,
\* or the answer is short
FailingBuses(map, g) ==
    { Bus([a \in {PlanOf(map, g)[1].start} |-> 1], {1}, {}),
      Bus([a \in {PlanOf(map, g)[1].start} |-> 1], {}, {1}) }

\* lines 83-87: a turn of the initial loop past the counted retries: the config
\* read fails once more, the loop sleeps and tries again
InitRetry ==
    /\ pc = "init"
    /\ retries = MaxRetry
    /\ \E dev \in FailingBuses(register_map, "config") :
        /\ ReadStep("config", dev)
        /\ ~InitDone(pvdata')
    /\ UNCHANGED <<register_map, pc, planVars, requested, created, ncalls, loadVars,
                   clock, published, runVars, iter_polls, iter_failed, prev_failed,
                   sec_hist, config_ok, published_any, iters, retries, signal_at,
                   writeVars, iterVars>>

\* a turn of the initial loop
InitTurn == InitConfig \/ InitRetry

NextStop ==
    \/ SignalHandler
    \/ RunStart
    \/ InitTurn
    \/ LoopTest
    \/ PollBase
    \/ PollSecondary
    \/ PollDay
    \/ PollTotal
    \/ PollConfig
    \/ Sleep
    \/ Stop

\* Weak fairness of a poll step, which is enabled exactly at its position and
\* always leaves it: the coordinator does not stay at the position for ever.
\* Weak fairness of the initial loop, which stays at its position while the
\* reads fail: turns of the loop keep happening.
PollsFair ==
    /\ []<>(pc # "base")
    /\ []<>(pc # "secondary")
    /\ []<>(pc # "day")
    /\ []<>(pc # "total")
    /\ []<>(pc # "config")
    /\ ([]<>(pc # "init") \/ []<><<InitTurn>>_vars)

\* the coordinator is never held up for ever: every call returns and the next
\* statement runs; when the signal arrives is not constrained
SpecStop ==
    /\ InitRun
    /\ [][NextStop]_vars
    /\ WF_vars(RunStart)
    /\ WF_vars(LoopTest)
    /\ WF_vars(Sleep)
    /\ WF_vars(Stop)
    /\ PollsFair

Stopped == pc = "stopped" /\ ~connected

\* C27: under fairness, every call returning, once the stop signal has been
\* delivered the coordinator eventually disconnects the bus client and reaches
\* Stopped, whether it was initializing with failing config reads or running.
C27_SignalLeadsToStopped ==
    signal_at # "" ~> Stopped

\* the same for a signal delivered after the initial loop was left
StopFromRunning ==
    (signal_at \in InIteration \cup {"top"}) ~> Stopped

\* ---------------------------------------------------------------------------
\* Claims about the first iteration of the main loop (mtec_coordinator.py 73-135)
\* ---------------------------------------------------------------------------

\* the polls of an iteration in which every long interval is due
FullIteration(idx) == <<BaseGroup, SecondaryGroups[idx], "day", "total", "config">>

\* C28: on entering the main loop all three long intervals are due: the first
\* iteration polls base, secondary group 0, day, total and config, in that
\* order; the successful config read of the initial loop publishes nothing and
\* leaves the due time of config where run set it at its start.
C28_FirstIterationPollsAll ==
    /\ iters = 0 /\ pc \in {"init", "top"} =>
           /\ published = <<>>
           /\ ~published_any
           /\ iter_polls = <<>>
           /\ next_read_config = 0
           /\ next_read_day = 0
           /\ next_read_total = 0
    /\ iters = 0 /\ pc = "sleep" => iter_polls = FullIteration(0)
    /\ iters = 1 /\ pc = "top" => iter_polls = FullIteration(0)

\* the initial loop failed once and then read the config; the first iteration
\* polled all five groups and published the config group
C28_Witness ==
    /\ iters = 0
    /\ pc = "sleep"
    /\ retries = 1
    /\ config_ok
    /\ iter_polls = FullIteration(0)
    /\ group = "config"
    /\ published # <<>>

\* ---------------------------------------------------------------------------
\* Claims about the key the autarky reads (mtec_coordinator.py 167-174, 193-203)
\* ---------------------------------------------------------------------------

\* the catalog publishes the autarky aid of the polled group at an entry
\* before which no entry of the group is published under the key ckey
AutarkyBeforeKey(aid, ckey) ==
    \E i \in 1..Len(register_map) :
        /\ register_map[i].id = aid
        /\ register_map[i].group = group
        /\ register_map[i].mqtt # NoneStr
        /\ \A j \in 1..(i - 1) :
               register_map[j].group = group => register_map[j].mqtt # ckey

\* C29: autarky-day (autarky-total) takes the consumption from the snapshot
\* entry under the fixed key consumption_day (consumption_total): when the
\* snapshot has no entry under that key as the autarky is reached in catalog
\* order (the consumption listed later, unpublished, or published under
\* another key), the poll returns the empty snapshot.
C29_AutarkyNeedsFixedKey ==
    pc = "read_done" =>
        /\ AutarkyBeforeKey(AutarkyDay, "consumption_day") => pvdata = <<>>
        /\ AutarkyBeforeKey(AutarkyTotal, "consumption_total") => pvdata = <<>>

\* group day with every register decoded, consumption-day published under
\* cons_day before autarky-day: the snapshot is empty
C29_Witness ==
    /\ pc = "read_done"
    /\ group = "day"
    /\ bus.fail = {}
    /\ bus.short = {}
    /\ \A a \in {31000, 31001, 31003, 31004, 31005} : Str(a) \in DOMAIN data
    /\ \E i \in 1..Len(register_map) :
           register_map[i].id = ConsumptionDay /\ register_map[i].mqtt = "cons_day"
    /\ AutarkyBeforeKey(AutarkyDay, "consumption_day")
    /\ pvdata = <<>>

\* ---------------------------------------------------------------------------
\* Claims about answers of the wrong length (modbus_client.py 187-217, 95-118)
\* ---------------------------------------------------------------------------

\* the answer to the k-th cluster read has not the requested length
WrongLength(k) == k \in bus.short \cup bus.long

\* the keys the items of a cluster are stored under
ClusterKeys(c) == { Str(a) : a \in c.start..(c.start + c.length - 1) }

\* C30: a bus response whose word count differs from the requested length of
\* the cluster is treated as a failed read: nothing is stored under a key of
\* that cluster, while every other cluster of the request is read and each of
\* its typed items is in the result.
C30_WrongLengthIsFailedRead ==
    pc = "keys_done" =>
        \A k \in DOMAIN cluster_list :
            /\ WrongLength(k) => ClusterKeys(cluster_list[k]) \cap DOMAIN data = {}
            /\ ~WrongLength(k) =>
                   \A i \in DOMAIN cluster_list[k].items :
                       cluster_list[k].items[i].type # NoneStr =>
                           Str(cluster_list[k].start + OffsetOf(cluster_list[k].items, i))
                               \in DOMAIN data

\* registers 10 and 12 requested, the cluster of 10 answered with one word
\* more than requested: only 12 is in the result
C30_Witness ==
    /\ pc = "keys_done"
    /\ registers = <<Str(10), Str(12)>>
    /\ Len(cluster_list) = 2
    /\ bus.long = {1}
    /\ DOMAIN data = {Str(12)}
    /\ data[Str(12)].value = IntV(12)

=============================================================================
